---- MODULE Spec2Model ----
(***************************************************************************)
(* sysmetrics-mcp: the tool handlers (internal/handlers/handlers.go) and   *)
(* the server configuration (internal/config).                             *)
(*                                                                         *)
(* get_system_health (HandleGetSystemHealth) is modelled step by step:     *)
(* Each invocation of the handler is a process with its own program        *)
(* counter and its own local variables (cpuUsage, loadAvg, memInfo,        *)
(* rootDisk, info, status, warnings).  The metric providers (gopsutil) are *)
(* the environment: every read returns a value drawn from a small set or   *)
(* fails.  Percentages are float64 in the source; the model uses integers, *)
(* on which the strict comparisons of the source behave the same way.      *)
(*                                                                         *)
(* The other handlers keep no state between their statements that another  *)
(* call could see, so each is one action: it draws a request and the       *)
(* values its providers return, and records the call with its result.      *)
(* A string is a sequence of chunks; "," and " " are chunks of their own,  *)
(* every other chunk is a piece of text without comma or white space.      *)
(***************************************************************************)
EXTENDS Integers, Sequences, FiniteSets, TLC

\* ------------------------------------------------------------------ bounds
NumInvocations == 2     \* invocation slots (goroutines serving a call)
Excess == 1             \* how far a percentage may leave the range 0..100

\* ------------------------------------------------------- program constants
statusHealthy == "healthy"
statusCritical == "critical"
statusWarning == "warning"

CpuCritical == 95
CpuWarning == 80
MemCritical == 95
MemWarning == 85
DiskCritical == 95
DiskWarning == 85

CpuCriticalMsg == "CPU usage is critical (>95%)"
CpuHighMsg == "CPU usage is high (>80%)"
MemCriticalMsg == "Memory usage is critical (>95%)"
MemHighMsg == "Memory usage is high (>85%)"
DiskCriticalMsg == "Disk usage is critical (>95%)"
DiskHighMsg == "Disk usage is high (>85%)"

MemErrorMsg == "Failed to get memory info"
DiskErrorMsg == "Failed to get root disk info"
HostErrorMsg == "Failed to get system info"

\* ------------------------------------------------------------ environment
Invocations == 1..NumInvocations

\* What the providers may return.  A provider set is a record
\* [percents, loads, bytes, uptimes, hostnames] of the values a read can produce;
\* loadFails says whether load.Avg may return an error.
Percents == {0 - Excess, 10, 20, 30, 80, 81, 85, 86, 95, 96, 100 + Excess}

FullProviders ==
    [percents |-> Percents, loads |-> {0, 2}, bytes |-> {0}, uptimes |-> {60},
     hostnames |-> {"pi"}, loadFails |-> BOOLEAN]

\* Two samples per metric class are enough to interleave invocations:
\* 85 is a CPU warning but healthy for memory and disk, 96 is critical.
\* The only load is the zero a failed load.Avg is replaced by.
ConcProviders ==
    [percents |-> {85, 96}, loads |-> {0}, bytes |-> {0}, uptimes |-> {60},
     hostnames |-> {"pi"}, loadFails |-> {FALSE}]

\* The same percentages seen with different surrounding values.
PairProviders ==
    [percents |-> {90, 96}, loads |-> {0, 2}, bytes |-> {0, 1024},
     uptimes |-> {60, 3600}, hostnames |-> {"pi", "nas"},
     loadFails |-> BOOLEAN]

VARIABLES
    pc,         \* pc[i]: position of invocation i in HandleGetSystemHealth
    cpuUsage,   \* cpuUsage[i]: cpuPercent[0]
    loadAvg,    \* loadAvg[i]: loadAvg.Load1
    memInfo,    \* memInfo[i]: [UsedPercent, Available]
    rootDisk,   \* rootDisk[i]: [UsedPercent, Free]
    info,       \* info[i]: [Uptime, Hostname]
    status,     \* status[i]: local "status"
    warnings,   \* warnings[i]: local "warnings"
    result,     \* result[i]: what the invocation returned to its caller
    upstream,   \* upstream[i]: the providers whose read failed in the call
                \* invocation i is serving (history, forgotten on release)
    permSample, \* order study: the sample <<cpu, memory, disk>>
    permOrder,  \* order study: the evaluation order, a permutation
    permPos,    \* order study: number of checks applied so far
    permVerdict, \* order study: [status, warnings] so far
    cfg,        \* the Config the HandlerManager points to (h.cfg)
    validated,  \* "no": Validate not called; "ok": returned nil; "error"
    served      \* the call of another tool being answered: request,
                \* readings, result; NoCall between calls

vars == <<pc, cpuUsage, loadAvg, memInfo, rootDisk, info, status, warnings,
          result, upstream, permSample, permOrder, permPos, permVerdict,
          cfg, validated, served>>

serverVars == <<cfg, validated, served>>

healthVars == <<pc, cpuUsage, loadAvg, memInfo, rootDisk, info, status,
                warnings, result, upstream>>

permVars == <<permSample, permOrder, permPos, permVerdict>>

\* ------------------------------------------------------------------- text
\* strings.ToLower / strings.ToUpper on the chunks whose case matters; any
\* other chunk (names in lower case, digits, "," and " ") is its own image.
CaseTable ==
    { <<"celsius", "celsius", "CELSIUS">>, <<"Celsius", "celsius", "CELSIUS">>,
      <<"fahrenheit", "fahrenheit", "FAHRENHEIT">>,
      <<"FAHRENHEIT", "fahrenheit", "FAHRENHEIT">>,
      <<"kelvin", "kelvin", "KELVIN">>, <<"Kelvin", "kelvin", "KELVIN">>,
      <<"rankine", "rankine", "RANKINE">>,
      <<"cpu", "cpu", "CPU">>, <<"CPU", "cpu", "CPU">>,
      <<"memory", "memory", "MEMORY">>, <<"Memory", "memory", "MEMORY">>,
      <<"pid", "pid", "PID">>, <<"PID", "pid", "PID">>,
      <<"name", "name", "NAME">>,
      <<"tcp", "tcp", "TCP">>, <<"TCP", "tcp", "TCP">>,
      <<"udp", "udp", "UDP">>, <<"Udp", "udp", "UDP">>,
      <<"all", "all", "ALL">>, <<"ALL", "all", "ALL">>,
      <<"inet", "inet", "INET">>,
      <<"listen", "listen", "LISTEN">>, <<"Listen", "listen", "LISTEN">>,
      <<"LISTEN", "listen", "LISTEN">>,
      <<"established", "established", "ESTABLISHED">>,
      <<"ESTABLISHED", "established", "ESTABLISHED">> }

LowerChunk(c) ==
    IF \E t \in CaseTable : t[1] = c
    THEN (CHOOSE t \in CaseTable : t[1] = c)[2] ELSE c

UpperChunk(c) ==
    IF \E t \in CaseTable : t[1] = c
    THEN (CHOOSE t \in CaseTable : t[1] = c)[3] ELSE c

ToLower(s) == [k \in 1..Len(s) |-> LowerChunk(s[k])]
ToUpper(s) == [k \in 1..Len(s) |-> UpperChunk(s[k])]

\* strings.TrimSpace
RECURSIVE TrimLeft(_)
TrimLeft(s) ==
    IF Len(s) > 0 /\ s[1] = " " THEN TrimLeft(Tail(s)) ELSE s

RECURSIVE TrimRight(_)
TrimRight(s) ==
    IF Len(s) > 0 /\ s[Len(s)] = " "
    THEN TrimRight(SubSeq(s, 1, Len(s) - 1)) ELSE s

TrimSpace(s) == TrimRight(TrimLeft(s))

\* strings.Split(s, ","): the pieces between the commas, empty ones included
RECURSIVE Split(_)
Split(s) ==
    IF \E k \in 1..Len(s) : s[k] = ","
    THEN LET k == CHOOSE j \in 1..Len(s) :
                      s[j] = "," /\ \A h \in 1..(j - 1) : s[h] # ","
         IN  <<SubSeq(s, 1, k - 1)>> \o Split(SubSeq(s, k + 1, Len(s)))
    ELSE <<s>>

RECURSIVE KeepNonEmpty(_)
KeepNonEmpty(parts) ==
    IF Len(parts) = 0 THEN <<>>
    ELSE LET trimmed == TrimSpace(Head(parts))
         IN  (IF trimmed # <<>> THEN <<trimmed>> ELSE <<>>)
             \o KeepNonEmpty(Tail(parts))

\* Variant: the pieces are trimmed but blank ones are kept.
RECURSIVE KeepAll(_)
KeepAll(parts) ==
    IF Len(parts) = 0 THEN <<>>
    ELSE <<TrimSpace(Head(parts))>> \o KeepAll(Tail(parts))

SplitAndTrim_KeepBlank(s) == KeepAll(Split(s))

SplitAndTrim(s) == KeepNonEmpty(Split(s))

\* contains(slice, item)
contains(slice, item) == \E k \in 1..Len(slice) : slice[k] = item

\* ---------------------------------------------------------- configuration
UnitCelsius == <<"celsius">>
UnitFahrenheit == <<"fahrenheit">>
UnitKelvin == <<"kelvin">>

DefaultMaxProcesses == 10
MaxProcessesCap == 50

\* config.Config{}
ZeroConfig ==
    [TempUnit |-> <<>>, MaxProcesses |-> 0, MountPoints |-> <<>>,
     Interfaces |-> <<>>, EnableGPU |-> FALSE, MountPointsStr |-> <<>>,
     InterfacesStr |-> <<>>]

\* Variant: a limit above the cap falls back to the default.
ClampMaxProcesses_Default(n) ==
    IF n < 1 \/ n > MaxProcessesCap THEN DefaultMaxProcesses ELSE n

\* if c.MaxProcesses < 1 {= 10}; if c.MaxProcesses > 50 {= 50}
ClampMaxProcesses(n) ==
    LET low == IF n < 1 THEN DefaultMaxProcesses ELSE n
    IN  IF low > MaxProcessesCap THEN MaxProcessesCap ELSE low

\* Variant: the unit is tested as given, before it is put in lower case.
ValidUnit_CaseSensitive(given, lowered) ==
    given \in {UnitCelsius, UnitFahrenheit, UnitKelvin}

\* c.TempUnit != UnitCelsius && != UnitFahrenheit && != UnitKelvin, negated
ValidUnit(given, lowered) ==
    lowered \in {UnitCelsius, UnitFahrenheit, UnitKelvin}

\* (c *Config) Validate(): [err, cfg] where cfg is *c on return
Validate(c) ==
    LET unit == ToLower(c.TempUnit)
        lowered == [c EXCEPT !.TempUnit = unit]
    IN  IF ~ValidUnit(c.TempUnit, unit)
        THEN [err |-> TRUE, cfg |-> lowered]
        ELSE [err |-> FALSE,
              cfg |-> [lowered EXCEPT
                         !.MaxProcesses = ClampMaxProcesses(c.MaxProcesses),
                         !.MountPoints =
                             IF c.MountPointsStr # <<>>
                             THEN SplitAndTrim(c.MountPointsStr)
                             ELSE c.MountPoints,
                         !.Interfaces =
                             IF c.InterfacesStr # <<>>
                             THEN SplitAndTrim(c.InterfacesStr)
                             ELSE c.Interfaces]]

NoCall == [tool |-> "none"]

\* A server whose configuration is config.Config{} and never validated, as
\* the handler tests construct it.
ServerIdle ==
    /\ cfg = ZeroConfig
    /\ validated = "no"
    /\ served = NoCall

\* err := cfg.Validate()
ValidateConfig ==
    /\ validated = "no"
    /\ LET v == Validate(cfg)
       IN  /\ cfg' = v.cfg
           /\ validated' = IF v.err THEN "error" ELSE "ok"
    /\ UNCHANGED served
    /\ UNCHANGED <<healthVars, permVars>>

\* ---------------------------------------------------- the threshold checks
\* A verdict is [status, warnings].  Each check is the if / else-if of the
\* source applied to one metric.

\* Variant: the CPU thresholds are inclusive (>= for >).
CheckCpuUsage_Inclusive(v, verdict) ==
    IF v >= CpuCritical
    THEN [status |-> statusCritical,
          warnings |-> Append(verdict.warnings, CpuCriticalMsg)]
    ELSE IF v >= CpuWarning
    THEN [status |-> IF verdict.status # statusCritical
                     THEN statusWarning ELSE verdict.status,
          warnings |-> Append(verdict.warnings, CpuHighMsg)]
    ELSE verdict

\* Variant: the CPU warning branch sets the status without looking at it.
CheckCpuUsage_Downgrade(v, verdict) ==
    IF v > CpuCritical
    THEN [status |-> statusCritical,
          warnings |-> Append(verdict.warnings, CpuCriticalMsg)]
    ELSE IF v > CpuWarning
    THEN [status |-> statusWarning,
          warnings |-> Append(verdict.warnings, CpuHighMsg)]
    ELSE verdict

\* Variant: a percentage outside 0..100 is rejected instead of classified.
CheckCpuUsage_Reject(v, verdict) ==
    IF v < 0 \/ v > 100
    THEN [status |-> "invalid", warnings |-> verdict.warnings]
    ELSE IF v > CpuCritical
    THEN [status |-> statusCritical,
          warnings |-> Append(verdict.warnings, CpuCriticalMsg)]
    ELSE IF v > CpuWarning
    THEN [status |-> IF verdict.status # statusCritical
                     THEN statusWarning ELSE verdict.status,
          warnings |-> Append(verdict.warnings, CpuHighMsg)]
    ELSE verdict

CheckCpuUsage(v, verdict) ==
    IF v > CpuCritical
    THEN [status |-> statusCritical,
          warnings |-> Append(verdict.warnings, CpuCriticalMsg)]
    ELSE IF v > CpuWarning
    THEN [status |-> IF verdict.status # statusCritical
                     THEN statusWarning ELSE verdict.status,
          warnings |-> Append(verdict.warnings, CpuHighMsg)]
    ELSE verdict

\* Variant: the memory thresholds are inclusive (>= for >).
CheckMemUsedPercent_Inclusive(v, verdict) ==
    IF v >= MemCritical
    THEN [status |-> statusCritical,
          warnings |-> Append(verdict.warnings, MemCriticalMsg)]
    ELSE IF v >= MemWarning
    THEN [status |-> IF verdict.status # statusCritical
                     THEN statusWarning ELSE verdict.status,
          warnings |-> Append(verdict.warnings, MemHighMsg)]
    ELSE verdict

\* Variant: the memory warning branch sets the status without looking at it.
CheckMemUsedPercent_Downgrade(v, verdict) ==
    IF v > MemCritical
    THEN [status |-> statusCritical,
          warnings |-> Append(verdict.warnings, MemCriticalMsg)]
    ELSE IF v > MemWarning
    THEN [status |-> statusWarning,
          warnings |-> Append(verdict.warnings, MemHighMsg)]
    ELSE verdict

\* Variant: the critical branch appends the text of the warning branch.
CheckMemUsedPercent_WrongMsg(v, verdict) ==
    IF v > MemCritical
    THEN [status |-> statusCritical,
          warnings |-> Append(verdict.warnings, MemHighMsg)]
    ELSE IF v > MemWarning
    THEN [status |-> IF verdict.status # statusCritical
                     THEN statusWarning ELSE verdict.status,
          warnings |-> Append(verdict.warnings, MemHighMsg)]
    ELSE verdict

CheckMemUsedPercent(v, verdict) ==
    IF v > MemCritical
    THEN [status |-> statusCritical,
          warnings |-> Append(verdict.warnings, MemCriticalMsg)]
    ELSE IF v > MemWarning
    THEN [status |-> IF verdict.status # statusCritical
                     THEN statusWarning ELSE verdict.status,
          warnings |-> Append(verdict.warnings, MemHighMsg)]
    ELSE verdict

\* Variant: the disk warning branch sets the status without looking at it.
CheckDiskUsedPercent_Downgrade(v, verdict) ==
    IF v > DiskCritical
    THEN [status |-> statusCritical,
          warnings |-> Append(verdict.warnings, DiskCriticalMsg)]
    ELSE IF v > DiskWarning
    THEN [status |-> statusWarning,
          warnings |-> Append(verdict.warnings, DiskHighMsg)]
    ELSE verdict

\* Variant: the disk thresholds are inclusive (>= for >).
CheckDiskUsedPercent_Inclusive(v, verdict) ==
    IF v >= DiskCritical
    THEN [status |-> statusCritical,
          warnings |-> Append(verdict.warnings, DiskCriticalMsg)]
    ELSE IF v >= DiskWarning
    THEN [status |-> IF verdict.status # statusCritical
                     THEN statusWarning ELSE verdict.status,
          warnings |-> Append(verdict.warnings, DiskHighMsg)]
    ELSE verdict

CheckDiskUsedPercent(v, verdict) ==
    IF v > DiskCritical
    THEN [status |-> statusCritical,
          warnings |-> Append(verdict.warnings, DiskCriticalMsg)]
    ELSE IF v > DiskWarning
    THEN [status |-> IF verdict.status # statusCritical
                     THEN statusWarning ELSE verdict.status,
          warnings |-> Append(verdict.warnings, DiskHighMsg)]
    ELSE verdict

\* status := statusHealthy; var warnings []string
InitialVerdict == [status |-> statusHealthy, warnings |-> <<>>]

\* The three checks in the order of the source: CPU, memory, disk.
Classify(sample) ==
    CheckDiskUsedPercent(sample[3],
        CheckMemUsedPercent(sample[2],
            CheckCpuUsage(sample[1], InitialVerdict)))

\* json.Marshal of a []string: a nil slice is encoded as null, any other
\* slice as an array.  warnings is nil exactly when nothing was appended.
MarshalStrings(w) ==
    IF Len(w) = 0 THEN [null |-> TRUE, items |-> <<>>]
    ELSE [null |-> FALSE, items |-> w]

\* ------------------------------------------------------------- the handler
NoMem == [UsedPercent |-> 0, Available |-> 0]
NoDisk == [UsedPercent |-> 0, Free |-> 0]
NoInfo == [Uptime |-> 0, Hostname |-> ""]
NoResult == [kind |-> "none"]

ErrorResult(msg) == [kind |-> "error", isError |-> TRUE, text |-> msg]
PanicResult == [kind |-> "panic"]

\* The locals of an invocation cease to exist when it returns.
DropLocals(i) ==
    /\ cpuUsage' = [cpuUsage EXCEPT ![i] = 0]
    /\ loadAvg' = [loadAvg EXCEPT ![i] = 0]
    /\ memInfo' = [memInfo EXCEPT ![i] = NoMem]
    /\ rootDisk' = [rootDisk EXCEPT ![i] = NoDisk]
    /\ info' = [info EXCEPT ![i] = NoInfo]
    /\ status' = [status EXCEPT ![i] = ""]
    /\ warnings' = [warnings EXCEPT ![i] = <<>>]

\* return mcp.NewToolResultError(...), nil
ReturnError(i, msg) ==
    /\ pc' = [pc EXCEPT ![i] = "done"]
    /\ result' = [result EXCEPT ![i] = ErrorResult(msg)]
    /\ DropLocals(i)

\* A request arrives; the handler reads neither the request nor h.cfg.
Call(i) ==
    /\ pc[i] = "idle"
    /\ pc' = [pc EXCEPT ![i] = "cpu"]
    /\ result' = [result EXCEPT ![i] = NoResult]
    /\ UNCHANGED <<cpuUsage, loadAvg, memInfo, rootDisk, info, status,
                   warnings>>
    /\ UNCHANGED <<upstream, permVars, serverVars>>

\* Variant: a failed cpu.Percent ends the call like a failed memory read.
ReadCPU_Fatal(i, P) ==
    /\ pc[i] = "cpu"
    /\ \/ /\ ReturnError(i, "Failed to get CPU usage")
          /\ upstream' = [upstream EXCEPT ![i] = @ \cup {"cpu"}]
       \/ \E samples \in {<<>>} \cup {<<v>> : v \in P.percents} :
            /\ UNCHANGED upstream
            /\ IF Len(samples) = 0
               THEN /\ pc' = [pc EXCEPT ![i] = "done"]
                    /\ result' = [result EXCEPT ![i] = PanicResult]
                    /\ DropLocals(i)
               ELSE /\ pc' = [pc EXCEPT ![i] = "load"]
                    /\ cpuUsage' = [cpuUsage EXCEPT ![i] = samples[1]]
                    /\ UNCHANGED <<loadAvg, memInfo, rootDisk, info, status,
                                   warnings, result>>
    /\ UNCHANGED <<permVars, serverVars>>

\* cpuPercent, err := cpu.Percent(0, false); on error cpuPercent = {0};
\* cpuUsage := cpuPercent[0] panics on an empty slice.
ReadCPU(i, P) ==
    /\ pc[i] = "cpu"
    /\ \E failed \in BOOLEAN, samples \in {<<>>} \cup {<<v>> : v \in P.percents} :
         LET cpuPercent == IF failed THEN <<0>> ELSE samples
         IN  /\ upstream' = [upstream EXCEPT
                                ![i] = IF failed THEN @ \cup {"cpu"} ELSE @]
             /\ IF Len(cpuPercent) = 0
                THEN /\ pc' = [pc EXCEPT ![i] = "done"]
                     /\ result' = [result EXCEPT ![i] = PanicResult]
                     /\ DropLocals(i)
                ELSE /\ pc' = [pc EXCEPT ![i] = "load"]
                     /\ cpuUsage' = [cpuUsage EXCEPT ![i] = cpuPercent[1]]
                     /\ UNCHANGED <<loadAvg, memInfo, rootDisk, info, status,
                                    warnings, result>>
    /\ UNCHANGED <<permVars, serverVars>>

\* loadAvg, err := load.Avg(); on error loadAvg = &load.AvgStat{}
ReadLoad(i, P) ==
    /\ pc[i] = "load"
    /\ \E failed \in P.loadFails, l \in P.loads :
         /\ loadAvg' = [loadAvg EXCEPT ![i] = IF failed THEN 0 ELSE l]
         /\ upstream' = [upstream EXCEPT
                            ![i] = IF failed THEN @ \cup {"load"} ELSE @]
    /\ pc' = [pc EXCEPT ![i] = "mem"]
    /\ UNCHANGED <<cpuUsage, memInfo, rootDisk, info, status, warnings,
                   result>>
    /\ UNCHANGED <<permVars, serverVars>>

\* memInfo, err := mem.VirtualMemory(); an error ends the call
ReadMemory(i, P) ==
    /\ pc[i] = "mem"
    /\ \/ /\ ReturnError(i, MemErrorMsg)
          /\ upstream' = [upstream EXCEPT ![i] = @ \cup {"memory"}]
       \/ /\ \E v \in P.percents, b \in P.bytes :
               memInfo' = [memInfo EXCEPT
                             ![i] = [UsedPercent |-> v, Available |-> b]]
          /\ pc' = [pc EXCEPT ![i] = "disk"]
          /\ UNCHANGED <<cpuUsage, loadAvg, rootDisk, info, status, warnings,
                         result>>
          /\ UNCHANGED upstream
    /\ UNCHANGED <<permVars, serverVars>>

\* rootDisk, err := disk.Usage("/"); an error ends the call
ReadRootDisk(i, P) ==
    /\ pc[i] = "disk"
    /\ \/ /\ ReturnError(i, DiskErrorMsg)
          /\ upstream' = [upstream EXCEPT ![i] = @ \cup {"disk"}]
       \/ /\ \E v \in P.percents, b \in P.bytes :
               rootDisk' = [rootDisk EXCEPT
                              ![i] = [UsedPercent |-> v, Free |-> b]]
          /\ pc' = [pc EXCEPT ![i] = "host"]
          /\ UNCHANGED <<cpuUsage, loadAvg, memInfo, info, status, warnings,
                         result>>
          /\ UNCHANGED upstream
    /\ UNCHANGED <<permVars, serverVars>>

\* info, err := host.Info(); an error ends the call
ReadHostInfo(i, P) ==
    /\ pc[i] = "host"
    /\ \/ /\ ReturnError(i, HostErrorMsg)
          /\ upstream' = [upstream EXCEPT ![i] = @ \cup {"host"}]
       \/ /\ \E u \in P.uptimes, h \in P.hostnames :
               info' = [info EXCEPT ![i] = [Uptime |-> u, Hostname |-> h]]
          /\ pc' = [pc EXCEPT ![i] = "status"]
          /\ UNCHANGED <<cpuUsage, loadAvg, memInfo, rootDisk, status,
                         warnings, result>>
          /\ UNCHANGED upstream
    /\ UNCHANGED <<permVars, serverVars>>

\* status := statusHealthy; var warnings []string
InitStatus(i) ==
    /\ pc[i] = "status"
    /\ status' = [status EXCEPT ![i] = InitialVerdict.status]
    /\ warnings' = [warnings EXCEPT ![i] = InitialVerdict.warnings]
    /\ pc' = [pc EXCEPT ![i] = "checkCPU"]
    /\ UNCHANGED <<cpuUsage, loadAvg, memInfo, rootDisk, info, result>>
    /\ UNCHANGED <<upstream, permVars, serverVars>>

Local(i) == [status |-> status[i], warnings |-> warnings[i]]

\* Variant: the CPU check tests the load average instead of the usage.
CheckCPU_Load(i) ==
    /\ pc[i] = "checkCPU"
    /\ LET v == CheckCpuUsage(100 * loadAvg[i], Local(i))
       IN  /\ status' = [status EXCEPT ![i] = v.status]
           /\ warnings' = [warnings EXCEPT ![i] = v.warnings]
    /\ pc' = [pc EXCEPT ![i] = "checkMemory"]
    /\ UNCHANGED <<cpuUsage, loadAvg, memInfo, rootDisk, info, result>>
    /\ UNCHANGED <<upstream, permVars, serverVars>>

\* if cpuUsage > 95 {...} else if cpuUsage > 80 {...}
CheckCPU(i) ==
    /\ pc[i] = "checkCPU"
    /\ LET v == CheckCpuUsage(cpuUsage[i], Local(i))
       IN  /\ status' = [status EXCEPT ![i] = v.status]
           /\ warnings' = [warnings EXCEPT ![i] = v.warnings]
    /\ pc' = [pc EXCEPT ![i] = "checkMemory"]
    /\ UNCHANGED <<cpuUsage, loadAvg, memInfo, rootDisk, info, result>>
    /\ UNCHANGED <<upstream, permVars, serverVars>>

\* Variant: status is one package-level variable written by every invocation.
CheckMemory_Shared(i) ==
    /\ pc[i] = "checkMemory"
    /\ LET v == CheckMemUsedPercent(memInfo[i].UsedPercent, Local(i))
       IN  /\ status' = [j \in Invocations |-> v.status]
           /\ warnings' = [warnings EXCEPT ![i] = v.warnings]
    /\ pc' = [pc EXCEPT ![i] = "checkDisk"]
    /\ UNCHANGED <<cpuUsage, loadAvg, memInfo, rootDisk, info, result>>
    /\ UNCHANGED <<upstream, permVars, serverVars>>

\* if memInfo.UsedPercent > 95 {...} else if memInfo.UsedPercent > 85 {...}
CheckMemory(i) ==
    /\ pc[i] = "checkMemory"
    /\ LET v == CheckMemUsedPercent(memInfo[i].UsedPercent, Local(i))
       IN  /\ status' = [status EXCEPT ![i] = v.status]
           /\ warnings' = [warnings EXCEPT ![i] = v.warnings]
    /\ pc' = [pc EXCEPT ![i] = "checkDisk"]
    /\ UNCHANGED <<cpuUsage, loadAvg, memInfo, rootDisk, info, result>>
    /\ UNCHANGED <<upstream, permVars, serverVars>>

\* if rootDisk.UsedPercent > 95 {...} else if rootDisk.UsedPercent > 85 {...}
CheckDisk(i) ==
    /\ pc[i] = "checkDisk"
    /\ LET v == CheckDiskUsedPercent(rootDisk[i].UsedPercent, Local(i))
       IN  /\ status' = [status EXCEPT ![i] = v.status]
           /\ warnings' = [warnings EXCEPT ![i] = v.warnings]
    /\ pc' = [pc EXCEPT ![i] = "respond"]
    /\ UNCHANGED <<cpuUsage, loadAvg, memInfo, rootDisk, info, result>>
    /\ UNCHANGED <<upstream, permVars, serverVars>>

\* result := map[string]interface{}{...}; json.Marshal; NewToolResultText
HealthResult(i) ==
    [kind |-> "text", isError |-> FALSE,
     status |-> status[i],
     warnings |-> MarshalStrings(warnings[i]),
     cpu |-> [usage_percent |-> cpuUsage[i], load_1m |-> loadAvg[i]],
     memory |-> [usage_percent |-> memInfo[i].UsedPercent,
                 available_bytes |-> memInfo[i].Available],
     disk |-> [mount_point |-> "/",
               usage_percent |-> rootDisk[i].UsedPercent,
               free_bytes |-> rootDisk[i].Free],
     uptime |-> [seconds |-> info[i].Uptime],
     hostname |-> info[i].Hostname]

Respond(i) ==
    /\ pc[i] = "respond"
    /\ result' = [result EXCEPT ![i] = HealthResult(i)]
    /\ pc' = [pc EXCEPT ![i] = "done"]
    /\ DropLocals(i)
    /\ UNCHANGED <<upstream, permVars, serverVars>>

\* The caller has taken the result; the slot can serve another request.
Release(i) ==
    /\ pc[i] = "done"
    /\ pc' = [pc EXCEPT ![i] = "idle"]
    /\ UNCHANGED <<cpuUsage, loadAvg, memInfo, rootDisk, info, status,
                   warnings, result>>
    /\ upstream' = [upstream EXCEPT ![i] = {}]
    /\ UNCHANGED <<permVars, serverVars>>

HealthInit ==
    /\ pc = [i \in Invocations |-> "idle"]
    /\ cpuUsage = [i \in Invocations |-> 0]
    /\ loadAvg = [i \in Invocations |-> 0]
    /\ memInfo = [i \in Invocations |-> NoMem]
    /\ rootDisk = [i \in Invocations |-> NoDisk]
    /\ info = [i \in Invocations |-> NoInfo]
    /\ status = [i \in Invocations |-> ""]
    /\ warnings = [i \in Invocations |-> <<>>]
    /\ result = [i \in Invocations |-> NoResult]
    /\ upstream = [i \in Invocations |-> {}]

PermIdle ==
    /\ permSample = <<0, 0, 0>>
    /\ permOrder = <<"cpu", "memory", "disk">>
    /\ permPos = 3
    /\ permVerdict = InitialVerdict

\* ------------------------------------------- one invocation, all readings
Init == HealthInit /\ PermIdle /\ ServerIdle

Next ==
    \E i \in {1} :
        \/ Call(i)
        \/ ReadCPU(i, FullProviders)
        \/ ReadLoad(i, FullProviders)
        \/ ReadMemory(i, FullProviders)
        \/ ReadRootDisk(i, FullProviders)
        \/ ReadHostInfo(i, FullProviders)
        \/ InitStatus(i)
        \/ CheckCPU(i)
        \/ CheckMemory(i)
        \/ CheckDisk(i)
        \/ Respond(i)
        \/ Release(i)

Spec == Init /\ [][Next]_vars

\* ------------------------------------ invocations interleaved step by step
InitConc == HealthInit /\ PermIdle /\ ServerIdle

NextConc ==
    \E i \in Invocations :
        \/ Call(i)
        \/ ReadCPU(i, ConcProviders)
        \/ ReadLoad(i, ConcProviders)
        \/ ReadMemory(i, ConcProviders)
        \/ ReadRootDisk(i, ConcProviders)
        \/ ReadHostInfo(i, ConcProviders)
        \/ InitStatus(i)
        \/ CheckCPU(i)
        \/ CheckMemory(i)
        \/ CheckDisk(i)
        \/ Respond(i)
        \/ Release(i)

SpecConc == InitConc /\ [][NextConc]_vars

\* ----------------------- two invocations, the second after the first, whose
\* responses are both kept
InitPair == HealthInit /\ PermIdle /\ ServerIdle

\* The second request is sent once the first has been answered.
CallInTurn(i) ==
    /\ i = 1 \/ pc[1] = "done"
    /\ Call(i)

NextPair ==
    \E i \in {1, 2} :
        \/ CallInTurn(i)
        \/ ReadCPU(i, PairProviders)
        \/ ReadLoad(i, PairProviders)
        \/ ReadMemory(i, PairProviders)
        \/ ReadRootDisk(i, PairProviders)
        \/ ReadHostInfo(i, PairProviders)
        \/ InitStatus(i)
        \/ CheckCPU(i)
        \/ CheckMemory(i)
        \/ CheckDisk(i)
        \/ Respond(i)

SpecPair == InitPair /\ [][NextPair]_vars

\* ------------------- the three checks applied in an arbitrary order to one
\* sample (the source fixes the order CPU, memory, disk)
Metrics == {"cpu", "memory", "disk"}

Orders == {o \in [1..3 -> Metrics] : \A a, b \in 1..3 : o[a] = o[b] => a = b}

CheckMetric(m, sample, verdict) ==
    CASE m = "cpu" -> CheckCpuUsage(sample[1], verdict)
      [] m = "memory" -> CheckMemUsedPercent(sample[2], verdict)
      [] m = "disk" -> CheckDiskUsedPercent(sample[3], verdict)

InitOrder ==
    /\ HealthInit
    /\ ServerIdle
    /\ permSample \in Percents \X Percents \X Percents
    /\ permOrder \in Orders
    /\ permPos = 0
    /\ permVerdict = InitialVerdict

PermCheck ==
    /\ permPos < 3
    /\ permVerdict' = CheckMetric(permOrder[permPos + 1], permSample, permVerdict)
    /\ permPos' = permPos + 1
    /\ UNCHANGED <<permSample, permOrder>>
    /\ UNCHANGED <<healthVars, serverVars>>

NextOrder == PermCheck

SpecOrder == InitOrder /\ [][NextOrder]_vars

\* ------------------------------------------- Validate on a fresh Config
\* The flags a Config is built from before Validate is called.
\* The flag values Validate is run on: process limits around 1 and the cap,
\* units in mixed case, lists with blanks and empty names.
FlagConfigs ==
    {[ZeroConfig EXCEPT !.TempUnit = u, !.MaxProcesses = n,
                        !.MountPointsStr = l, !.InterfacesStr = l,
                        !.EnableGPU = g] :
        u \in {<<>>, <<"celsius">>, <<"Celsius">>, <<"FAHRENHEIT">>,
               <<"Kelvin">>, <<"kelvin">>, <<"rankine">>, <<"celsius", " ">>},
        n \in {0 - Excess, 0, 1, DefaultMaxProcesses, MaxProcessesCap - 1,
               MaxProcessesCap, MaxProcessesCap + 1,
               MaxProcessesCap + 50 + Excess},
        l \in {<<>>, <<"/">>, <<" ", "/", ",", ",", "/data">>},
        g \in BOOLEAN}

InitConfig ==
    /\ HealthInit
    /\ PermIdle
    /\ cfg \in FlagConfigs
    /\ validated = "no"
    /\ served = NoCall

NextConfig == ValidateConfig

SpecConfig == InitConfig /\ [][NextConfig]_vars

\* --------------------------------------------------- requests and results
\* request.Params.Arguments is a map (isMap) from keys to values of any JSON
\* type, or something else.  A number h stands for the float64 h/2, so that
\* fractions are among the arguments.
Absent == [t |-> "absent"]
Str(s) == [t |-> "string", s |-> s]
Num(h) == [t |-> "number", halves |-> h]
Bool(b) == [t |-> "bool", b |-> b]

\* x, ok := args[key].(string); ok && x != ""
HasText(req, key) ==
    req.isMap /\ req.args[key].t = "string" /\ req.args[key].s # <<>>

\* mcp.NewToolResultText(string(jsonBytes)), nil
TextResult(data) == [kind |-> "text", isError |-> FALSE, data |-> data]

\* ------------------------------------------------------- get_process_list
\* limit := h.cfg.MaxProcesses; if l, ok := args["limit"].(float64);
\* ok && l > 0 { limit = int(l); if limit > 50 { limit = 50 } }
EffectiveLimit(c, req) ==
    IF req.isMap /\ req.args.limit.t = "number" /\ req.args.limit.halves > 0
    THEN LET l == req.args.limit.halves \div 2
         IN  IF l > MaxProcessesCap THEN MaxProcessesCap ELSE l
    ELSE c.MaxProcesses

\* sortBy := "cpu"; if s, ok := args["sort_by"].(string); ok && s != ""
\* { sortBy = strings.ToLower(s) }
EffectiveSortBy(req) ==
    IF HasText(req, "sort_by") THEN ToLower(req.args.sort_by.s) ELSE <<"cpu">>

\* The less function handed to sort.Slice by the switch on sortBy.
Less(sortBy, a, b) ==
    CASE sortBy = <<"memory">> -> a.Memory > b.Memory
      [] sortBy = <<"pid">> -> a.PID < b.PID
      [] OTHER -> a.CPU > b.CPU

\* sort.Slice is not stable: it may leave the slice in any arrangement in
\* which no element is less than one before it.  Arrangements(l, S, by) is
\* the set of such arrangements of the elements of l at the indices S.
RECURSIVE Arrangements(_, _, _)
Arrangements(l, S, sortBy) ==
    IF S = {} THEN {<<>>}
    ELSE UNION {{<<l[x]>> \o rest : rest \in Arrangements(l, S \ {x}, sortBy)} :
                  x \in {y \in S : \A z \in S : ~Less(sortBy, l[z], l[y])}}

SortSlice(l, sortBy) == Arrangements(l, DOMAIN l, sortBy)

\* if len(procList) > limit { procList = procList[:limit] }; a negative
\* limit is a slice bound out of range
Truncate(l, limit) == IF Len(l) > limit THEN SubSeq(l, 1, limit) ELSE l

\* Variant: the list is cut to the limit first and sorted afterwards.
SortAndLimit_CutFirst(l, sortBy, limit) ==
    SortSlice(Truncate(l, limit), sortBy)

\* The switch on sortBy followed by the truncation.
SortAndLimit(l, sortBy, limit) ==
    {Truncate(sorted, limit) : sorted \in SortSlice(l, sortBy)}

\* procInfo of one process; memInfo.RSS dereferences the *MemoryInfoStat
\* that p.MemoryInfo() returned, which is nil when the call failed.
ProcInfo(p) == [PID |-> p.Pid, CPU |-> p.CPUPercent, Memory |-> p.MemoryPercent]

\* The outcomes of HandleGetProcessList: the result with the final values of
\* the locals limit and sortBy.
GetProcessList(c, req, env) ==
    LET limit == EffectiveLimit(c, req)
        sortBy == EffectiveSortBy(req)
        procList == [k \in 1..Len(env.processes) |-> ProcInfo(env.processes[k])]
        out(r) == [result |-> r, limit |-> limit, sortBy |-> sortBy]
    IN  IF env.err
        THEN {out(ErrorResult("Failed to get processes"))}
        ELSE IF \E k \in 1..Len(env.processes) : env.processes[k].memInfoNil
        THEN {out(PanicResult)}
        ELSE IF Len(procList) > limit /\ limit < 0
        THEN {out(PanicResult)}
        ELSE {out(TextResult([processes |-> shown,
                              total |-> Len(env.processes),
                              shown |-> Len(shown),
                              sort_by |-> sortBy])) :
                 shown \in SortAndLimit(procList, sortBy, limit)}

\* The requests the handler is exercised with.
ProcessListRequests ==
    {[isMap |-> FALSE, args |-> [limit |-> Absent, sort_by |-> Absent]]}
    \cup {[isMap |-> TRUE, args |-> [limit |-> l, sort_by |-> b]] :
            l \in {Absent, Str(<<"5">>), Bool(TRUE)}
                  \cup {Num(h) : h \in {0 - 2, 0, 1, 2, 4, 5,
                                         2 * MaxProcessesCap,
                                         2 * MaxProcessesCap + 1,
                                         2 * MaxProcessesCap + 2,
                                         4 * MaxProcessesCap}},
            b \in {Absent, Num(2)}
                  \cup {Str(s) : s \in {<<>>, <<"cpu">>, <<"CPU">>,
                                         <<"memory">>, <<"Memory">>, <<"pid">>,
                                         <<"PID">>, <<"name">>}}}

Proc(pid, cpuPct, memPct) ==
    [Pid |-> pid, CPUPercent |-> cpuPct, MemoryPercent |-> memPct,
     memInfoNil |-> FALSE]

\* n processes with pairwise different CPU and memory percentages.
ManyTable(n) == [k \in 1..n |-> Proc(k, (7 * k) % 61, (11 * k) % 59)]

\* What process.Processes() returns: an error; up to three processes with a
\* tie in CPU and a tie in memory, in every order; a process that exited
\* after it was listed; as many processes as the cap, and more.
ProcessTables ==
    LET few == {Proc(1, 30, 5), Proc(2, 30, 9), Proc(3, 70, 5)}
        gone == [Proc(9, 0, 0) EXCEPT !.memInfoNil = TRUE]
    IN  {[err |-> TRUE, processes |-> <<>>]}
        \cup {[err |-> FALSE, processes |-> t] :
                t \in UNION {{f \in [1..n -> few] :
                                 \A a, b \in 1..n : f[a] = f[b] => a = b} :
                             n \in 0..3}
                      \cup {<<Proc(1, 30, 5), gone>>}
                      \cup {ManyTable(n) : n \in {MaxProcessesCap,
                                                  MaxProcessesCap + Excess}}}

HandleGetProcessList ==
    /\ served = NoCall
    /\ \E req \in ProcessListRequests, env \in ProcessTables :
         \E out \in GetProcessList(cfg, req, env) :
             served' = [tool |-> "get_process_list", req |-> req,
                        env |-> env, result |-> out.result,
                        limit |-> out.limit, sortBy |-> out.sortBy]
    /\ UNCHANGED <<cfg, validated>>
    /\ UNCHANGED <<healthVars, permVars>>

\* ------------------------------------------------------ get_network_metrics
\* The interfaces local after lines 343-349.
EffectiveInterfaces(c, req) ==
    IF HasText(req, "interfaces")
    THEN SplitAndTrim(req.args.interfaces.s) ELSE c.Interfaces

\* Variant: the loopback interface is not skipped.
Selected_Loopback(interfaces, name) ==
    ~(Len(interfaces) > 0 /\ ~contains(interfaces, name))

\* The two continue statements of the loop over netIO: TRUE when the
\* interface is kept.
Selected(interfaces, name) ==
    /\ ~(name = <<"lo">> /\ ~contains(interfaces, <<"lo">>))
    /\ ~(Len(interfaces) > 0 /\ ~contains(interfaces, name))

\* addrMap[io.Name]: the addresses net.Interfaces() reported for the name,
\* the nil slice (which json.Marshal writes as null) when it reported none
\* or failed.
AddrsOf(env, name) ==
    IF ~env.ifErr /\ name \in DOMAIN env.addrs
    THEN env.addrs[name] ELSE [null |-> TRUE]

NetInfo(env, io) ==
    [interface |-> io.Name, bytes_sent |-> io.BytesSent,
     bytes_recv |-> io.BytesRecv, ip_addresses |-> AddrsOf(env, io.Name)]

GetNetworkMetrics(c, req, env) ==
    LET interfaces == EffectiveInterfaces(c, req)
        Keep(io) == Selected(interfaces, io.Name)
        kept == SelectSeq(env.netIO, Keep)
    IN  IF env.err
        THEN ErrorResult("Failed to get network stats")
        ELSE TextResult([interfaces |->
                            [k \in 1..Len(kept) |-> NetInfo(env, kept[k])]])

\* The requests and the interface tables the handler is exercised with.
NetworkRequests ==
    {[isMap |-> FALSE, args |-> [interfaces |-> Absent]]}
    \cup {[isMap |-> TRUE, args |-> [interfaces |-> a]] :
            a \in {Absent, Num(2)}
                  \cup {Str(s) : s \in {<<>>, <<"eth0">>, <<"lo">>, <<"wlan1">>,
                                         <<",", " ">>,
                                         <<" ", "lo", ",", "wlan0", " ">>}}}

IOCounter(name, sent) ==
    [Name |-> name, BytesSent |-> sent, BytesRecv |-> 2 * sent]

NetworkTables ==
    LET addrs == (<<"lo">> :> <<"127.0.0.1">>)
                 @@ (<<"eth0">> :> <<"10.0.0.2", "fe80::2">>)
    IN  {[err |-> TRUE, ifErr |-> FALSE, netIO |-> <<>>, addrs |-> addrs]}
        \cup {[err |-> FALSE, ifErr |-> e, netIO |-> n, addrs |-> addrs] :
                e \in BOOLEAN,
                n \in {<<>>, <<IOCounter(<<"lo">>, 1)>>,
                       <<IOCounter(<<"eth0">>, 7)>>,
                       <<IOCounter(<<"lo">>, 1), IOCounter(<<"eth0">>, 7),
                         IOCounter(<<"wlan0">>, 0)>>}}

HandleGetNetworkMetrics ==
    /\ served = NoCall
    /\ \E req \in NetworkRequests, env \in NetworkTables :
         served' = [tool |-> "get_network_metrics", req |-> req, env |-> env,
                    result |-> GetNetworkMetrics(cfg, req, env)]
    /\ UNCHANGED <<cfg, validated>>
    /\ UNCHANGED <<healthVars, permVars>>

\* ------------------------------------------------------- get_service_status
\* unitName: the name, with ".service" appended unless it ends with it.
UnitName(serviceName) ==
    IF Len(serviceName) > 0 /\ serviceName[Len(serviceName)] = ".service"
    THEN serviceName ELSE serviceName \o <<".service">>

\* The switch over the property names systemctl printed.
ResultKey(key) ==
    CASE key = "LoadState" -> "load_state"
      [] key = "ActiveState" -> "active_state"
      [] key = "SubState" -> "sub_state"
      [] key = "Description" -> "description"
      [] key = "MainPID" -> "main_pid"
      [] OTHER -> ""

\* The loop over the output lines: a line is <<key, value>>, or <<text>>
\* when it has no "="; a later line replaces an earlier one of its key.
RECURSIVE ParseLines(_, _)
ParseLines(lines, props) ==
    IF Len(lines) = 0 THEN props
    ELSE LET parts == Head(lines)
         IN  IF Len(parts) # 2 \/ ResultKey(parts[1]) = ""
             THEN ParseLines(Tail(lines), props)
             ELSE ParseLines(Tail(lines),
                             (ResultKey(parts[1]) :> parts[2]) @@ props)

\* What "systemctl show" prints for a unit that does not exist.
NotFound ==
    [err |-> FALSE,
     output |-> << <<"LoadState", "not-found">>, <<"ActiveState", "inactive">> >>]

\* cmd.Output(): env.systemctl is what "systemctl show" does for the units
\* of the machine.
Systemctl(env, unit) ==
    IF unit \in DOMAIN env.systemctl THEN env.systemctl[unit] ELSE NotFound

getServiceInfo(env, serviceName) ==
    LET cmd == Systemctl(env, UnitName(serviceName))
    IN  IF cmd.err
        THEN [name |-> serviceName, available |-> FALSE,
              error |-> "Failed to query service", props |-> <<>>]
        ELSE [name |-> serviceName, available |-> TRUE, error |-> "",
              props |-> ParseLines(cmd.output, <<>>)]

\* The services local after lines 849-855; nil when nothing was given.
RequestedServices(req) ==
    IF HasText(req, "services")
    THEN SplitAndTrim(req.args.services.s) ELSE <<>>

\* The result, and the units systemctl was run for, in order.
GetServiceStatus(req, env) ==
    LET services == RequestedServices(req)
        serviceData == [k \in 1..Len(services) |->
                           getServiceInfo(env, services[k])]
    IN  IF Len(services) = 0
        THEN [result |-> ErrorResult("services parameter is required"),
              queried |-> <<>>]
        ELSE [result |-> TextResult([services |-> serviceData,
                                     total |-> Len(serviceData)]),
              queried |-> [k \in 1..Len(services) |-> UnitName(services[k])]]

\* The requests the handler is exercised with.
ServiceRequests ==
    {[isMap |-> FALSE, args |-> [services |-> Absent]]}
    \cup {[isMap |-> TRUE, args |-> [services |-> a]] :
            a \in {Absent, Num(2), Bool(TRUE)}
                  \cup {Str(s) : s \in
                          {<<>>, <<" ">>, <<",">>, <<" ", ",", " ", ",">>,
                           <<"ssh">>, <<"ssh", ".service">>,
                           <<"ssh", ",", " ", "nginx", ",", ",", "ssh", " ">>,
                           <<",", "docker", " ", ",", "nginx">>}}}

\* What systemctl does per unit: it fails for every unit; or ssh runs,
\* nginx does not exist and the query of docker fails.
Systemctls ==
    LET units == {UnitName(n) : n \in {<<"ssh">>, <<"nginx">>, <<"docker">>}}
        failed == [err |-> TRUE, output |-> <<>>]
        running ==
            [err |-> FALSE,
             output |-> << <<"LoadState", "loaded">>,
                           <<"ActiveState", "active">>,
                           <<"SubState", "running">>, <<"MainPID", "812">>,
                           <<"Warning: unit file changed on disk">>,
                           <<"Id", "x.service">>,
                           <<"Description", "daemon">> >>]
    IN  {[u \in units |-> failed],
         [u \in units |-> IF u = UnitName(<<"ssh">>) THEN running
                          ELSE IF u = UnitName(<<"nginx">>) THEN NotFound
                          ELSE failed]}

HandleGetServiceStatus ==
    /\ served = NoCall
    /\ \E req \in ServiceRequests, sys \in Systemctls :
         LET env == [systemctl |-> sys]
             out == GetServiceStatus(req, env)
         IN  served' = [tool |-> "get_service_status", req |-> req,
                        env |-> env, result |-> out.result,
                        queried |-> out.queried]
    /\ UNCHANGED <<cfg, validated>>
    /\ UNCHANGED <<healthVars, permVars>>

\* --------------------------------------------------------------- byte counts
ByteUnit == 1024

\* The loop of BytesToHuman: div and exp once n = bytes / unit is below unit.
RECURSIVE Scale(_, _, _)
Scale(n, div, exp) ==
    IF n >= ByteUnit THEN Scale(n \div ByteUnit, div * ByteUnit, exp + 1)
    ELSE [div |-> div, exp |-> exp]

\* "%.1f" of num / den: the nearest tenth, the even one of two equally near
\* (den is a power of two, so the quotient is exact below 2^53).
Tenths(num, den) ==
    LET q == (10 * num) \div den
        r == (10 * num) % den
    IN  IF 2 * r > den \/ (2 * r = den /\ q % 2 = 1) THEN q + 1 ELSE q

\* BytesToHuman: "%d B" below 1024, else "%.1f %cB" with the letter of
\* "KMGTPE" at exp.
BytesToHuman(bytes) ==
    IF bytes < ByteUnit
    THEN [format |-> "%d B", n |-> bytes]
    ELSE LET s == Scale(bytes \div ByteUnit, ByteUnit, 0)
         IN  [format |-> "%.1f %cB", tenths |-> Tenths(bytes, s.div),
              letter |-> <<"K", "M", "G", "T", "P", "E">>[s.exp + 1]]

\* --------------------------------------------------------- get_docker_metrics
\* The containerFilter local after lines 718-724.
ContainerFilter(req) ==
    IF HasText(req, "container_id") THEN req.args.container_id.s ELSE <<>>

\* cInfo of one container: the cpu and memory keys exist only when the
\* cgroup of the container could be read.
ContainerInfo(env, c) ==
    LET cpuStat == env.cgroupCPU[c.ContainerID]
        memStat == env.cgroupMem[c.ContainerID]
    IN  (IF cpuStat.err THEN <<>>
         ELSE [cpu |-> [user |-> cpuStat.User, system |-> cpuStat.System,
                        usage |-> cpuStat.Usage]])
        @@ (IF memStat.err THEN <<>>
            ELSE [memory |-> [cache |-> memStat.Cache, rss |-> memStat.RSS,
                              rss_human |-> BytesToHuman(memStat.RSS),
                              mapped_file |-> memStat.MappedFile]])
        @@ [container_id |-> c.ContainerID, name |-> c.Name,
            image |-> c.Image, status |-> c.Status, running |-> c.Running]

\* env.err and env.containers are what docker.GetDockerStat() returned.
GetDockerMetrics(req, env) ==
    LET containerFilter == ContainerFilter(req)
        Keep(c) == ~(/\ containerFilter # <<>>
                     /\ c.ContainerID # containerFilter
                     /\ c.Name # containerFilter)
        kept == SelectSeq(env.containers, Keep)
        containerData == [k \in 1..Len(kept) |-> ContainerInfo(env, kept[k])]
    IN  IF env.err
        THEN ErrorResult("Docker not available or no containers found")
        ELSE TextResult([containers |-> containerData,
                         total |-> Len(containerData)])

\* The requests the handler is exercised with.
DockerRequests ==
    {[isMap |-> FALSE, args |-> [container_id |-> Absent]]}
    \cup {[isMap |-> TRUE, args |-> [container_id |-> a]] :
            a \in {Absent, Num(2), Str(<<>>), Str(<<"c1">>), Str(<<"web">>),
                   Str(<<"gone">>)}}

Container(id, name, running) ==
    [ContainerID |-> id, Name |-> name, Image |-> <<"img">>,
     Status |-> IF running THEN "Up 2 hours" ELSE "Exited (0)",
     Running |-> running]

\* No Docker (the listing fails); Docker without containers; two
\* containers, the cgroup of the second unreadable.
DockerEnvs ==
    LET ids == {<<"c1">>, <<"c2">>}
        cpus == [c \in ids |->
                    [err |-> c # <<"c1">>, User |-> 3, System |-> 1,
                     Usage |-> 4]]
        mems == [c \in ids |->
                    [err |-> c # <<"c1">>, Cache |-> 10, RSS |-> 1280,
                     MappedFile |-> 0]]
        host(e, l) == [err |-> e, containers |-> l, cgroupCPU |-> cpus,
                       cgroupMem |-> mems]
    IN  {host(TRUE, <<>>), host(FALSE, <<>>),
         host(FALSE, <<Container(<<"c1">>, <<"web">>, TRUE),
                       Container(<<"c2">>, <<"db">>, FALSE)>>)}

HandleGetDockerMetrics ==
    /\ served = NoCall
    /\ \E req \in DockerRequests, env \in DockerEnvs :
         served' = [tool |-> "get_docker_metrics", req |-> req, env |-> env,
                    result |-> GetDockerMetrics(req, env)]
    /\ UNCHANGED <<cfg, validated>>
    /\ UNCHANGED <<healthVars, permVars>>

\* -------------------------------------------------------- get_disk_io_metrics
\* Variant: only the first name of the argument is taken.
RequestedDevices_First(req) ==
    LET names == IF HasText(req, "devices")
                 THEN SplitAndTrim(req.args.devices.s) ELSE <<>>
    IN  IF Len(names) > 1 THEN <<names[1]>> ELSE names

\* The devices local after lines 563-569; nil when nothing was given.
RequestedDevices(req) ==
    IF HasText(req, "devices") THEN SplitAndTrim(req.args.devices.s) ELSE <<>>

\* The continue statement of the loop over ioCounters: TRUE when the device
\* is kept.
DeviceKept(devices, name) ==
    ~(Len(devices) > 0 /\ ~contains(devices, name))

DiskIOInfo(name, io) ==
    [device |-> name, read_count |-> io.ReadCount,
     write_count |-> io.WriteCount, read_bytes |-> io.ReadBytes,
     read_human |-> BytesToHuman(io.ReadBytes),
     write_bytes |-> io.WriteBytes,
     write_human |-> BytesToHuman(io.WriteBytes)]

\* The orders in which a range over a map may visit the keys in S.
Visits(S) ==
    {o \in [1..Cardinality(S) -> S] :
        \A a, b \in 1..Cardinality(S) : o[a] = o[b] => a = b}

\* The results HandleGetDiskIOMetrics may give: ioCounters is a map, and
\* the devices are listed in the order the range statement visits them.
GetDiskIOMetrics(req, env) ==
    LET devices == RequestedDevices(req)
        kept == {n \in DOMAIN env.ioCounters : DeviceKept(devices, n)}
    IN  IF env.err
        THEN {ErrorResult("Failed to get disk I/O stats")}
        ELSE {TextResult(
                 [devices |-> [k \in 1..Len(o) |->
                                  DiskIOInfo(o[k], env.ioCounters[o[k]])],
                  total |-> Len(o)]) : o \in Visits(kept)}

\* The requests the handler is exercised with.
DiskIORequests ==
    {[isMap |-> FALSE, args |-> [devices |-> Absent]]}
    \cup {[isMap |-> TRUE, args |-> [devices |-> a]] :
            a \in {Absent, Num(2)}
                  \cup {Str(s) : s \in
                          {<<>>, <<",", " ">>, <<"sda">>, <<"SDA">>, <<"sdz">>,
                           <<"sdz", ",", " ", "mmcblk0">>,
                           <<"sda", ",", "sda", ",", "mmcblk0">>}}}

\* What disk.IOCounters() returns: an error, or counters of no, one or
\* three devices.
DiskIOEnvs ==
    LET stat(reads, writes) ==
            [ReadCount |-> reads, WriteCount |-> writes,
             ReadBytes |-> 640 * reads, WriteBytes |-> 512 * writes]
    IN  {[err |-> TRUE, ioCounters |-> <<>>]}
        \cup {[err |-> FALSE, ioCounters |-> t] :
                t \in {<<>>,
                       (<<"sda">> :> stat(2, 0)),
                       (<<"sda">> :> stat(2, 0)) @@ (<<"sda1">> :> stat(1, 3))
                           @@ (<<"mmcblk0">> :> stat(4100, 9))}}

HandleGetDiskIOMetrics ==
    /\ served = NoCall
    /\ \E req \in DiskIORequests, env \in DiskIOEnvs :
         \E res \in GetDiskIOMetrics(req, env) :
             served' = [tool |-> "get_disk_io_metrics", req |-> req,
                        env |-> env, result |-> res]
    /\ UNCHANGED <<cfg, validated>>
    /\ UNCHANGED <<healthVars, permVars>>

\* ---------------------------------------------------- get_network_connections
kindTCP == <<"tcp">>
kindUDP == <<"udp">>
kindAll == <<"all">>

\* Variant: the kind is taken as given, without the check against the known
\* values.
EffectiveKind_Unchecked(req) ==
    IF HasText(req, "kind") THEN ToLower(req.args.kind.s) ELSE kindAll

\* The kind local after lines 785-800.
EffectiveKind(req) ==
    LET kind == IF HasText(req, "kind")
                THEN ToLower(req.args.kind.s) ELSE kindAll
    IN  IF kind # kindTCP /\ kind # kindUDP THEN kindAll ELSE kind

\* The statusFilter local after lines 786-795.
StatusFilter(req) ==
    IF HasText(req, "status") THEN ToUpper(req.args.status.s) ELSE <<>>

connTypeToString(connType) ==
    CASE connType = 1 -> kindTCP
      [] connType = 2 -> kindUDP
      [] OTHER -> <<"unknown(", connType, ")">>

\* connInfo of one connection; an address is "%s:%d" of its IP and port.
ConnInfo(c) ==
    [type |-> connTypeToString(c.Type), status |-> c.Status,
     local_addr |-> <<c.Laddr.IP, ":", c.Laddr.Port>>, pid |-> c.Pid,
     remote_addr |-> IF c.Raddr.IP # "" THEN <<c.Raddr.IP, ":", c.Raddr.Port>>
                     ELSE <<>>]

\* env.connections is what net.Connections(kind) returned.
GetNetworkConnections(req, env) ==
    LET kind == EffectiveKind(req)
        statusFilter == StatusFilter(req)
        Keep(c) == ~(statusFilter # <<>> /\ c.Status # statusFilter)
        kept == SelectSeq(env.connections, Keep)
        connData == [k \in 1..Len(kept) |-> ConnInfo(kept[k])]
    IN  [kind |-> kind,
         result |->
            IF env.err
            THEN ErrorResult("Failed to get network connections")
            ELSE TextResult(
                    (IF statusFilter # <<>>
                     THEN [status_filter |-> statusFilter] ELSE <<>>)
                    @@ [connections |-> connData, total |-> Len(connData),
                        kind |-> kind])]

\* The requests the handler is exercised with.
ConnectionRequests ==
    {[isMap |-> FALSE, args |-> [kind |-> Absent, status |-> Absent]]}
    \cup {[isMap |-> TRUE, args |-> [kind |-> k, status |-> s]] :
            k \in {Absent, Num(2)}
                  \cup {Str(x) : x \in {<<>>, <<"tcp">>, <<"TCP">>, <<"Udp">>,
                                         <<"ALL">>, <<"inet">>, <<"tcp", " ">>}},
            s \in {Absent, Bool(TRUE)}
                  \cup {Str(x) : x \in {<<>>, <<" ">>, <<"listen">>,
                                         <<"Listen">>, <<"ESTABLISHED">>,
                                         <<"closed">>}}}

Conn(type, state, lip, lport, rip, rport, pid) ==
    [Type |-> type, Status |-> state, Laddr |-> [IP |-> lip, Port |-> lport],
     Raddr |-> [IP |-> rip, Port |-> rport], Pid |-> pid]

\* What net.Connections(kind) returns: an error, no socket, two, or five.
ConnectionEnvs ==
    LET sockets ==
            <<Conn(1, <<"LISTEN">>, "0.0.0.0", 22, "", 0, 812),
              Conn(1, <<"ESTABLISHED">>, "10.0.0.2", 22, "10.0.0.9", 5050, 812),
              Conn(2, <<>>, "0.0.0.0", 68, "", 0, 0),
              Conn(1, <<"listen">>, "::", 80, "", 0, 77),
              Conn(5, <<"NONE">>, "/run/x.sock", 0, "", 0, 1)>>
    IN  {[err |-> TRUE, connections |-> <<>>],
         [err |-> FALSE, connections |-> <<>>],
         [err |-> FALSE, connections |-> SubSeq(sockets, 1, 2)],
         [err |-> FALSE, connections |-> sockets]}

HandleGetNetworkConnections ==
    /\ served = NoCall
    /\ \E req \in ConnectionRequests, env \in ConnectionEnvs :
         LET out == GetNetworkConnections(req, env)
         IN  served' = [tool |-> "get_network_connections", req |-> req,
                        env |-> env, result |-> out.result,
                        kind |-> out.kind]
    /\ UNCHANGED <<cfg, validated>>
    /\ UNCHANGED <<healthVars, permVars>>

\* ------------------------------------------------------------ get_cpu_metrics
\* A float64 temperature: v whole 1/5000 degrees, or not a number; the
\* rounding of float64 arithmetic is left out.
Float(v) == [nan |-> FALSE, v |-> v]
NaN == [nan |-> TRUE, v |-> 0]

\* GetRaspberryPiTemp: the first thermal zone file that can be read and
\* parsed as a float gives tempMilli / 1000.0; env.zones holds, per path,
\* whether the read and the parse fail and the number parsed ("NaN" is a
\* float to strconv.ParseFloat).
RECURSIVE FirstZone(_)
FirstZone(zones) ==
    IF Len(zones) = 0 THEN [temp |-> Float(0), ok |-> FALSE]
    ELSE LET z == Head(zones)
         IN  IF ~z.readErr /\ ~z.parseErr
             THEN [temp |-> IF z.nan THEN NaN ELSE Float(5 * z.milli),
                   ok |-> TRUE]
             ELSE FirstZone(Tail(zones))

GetRaspberryPiTemp(env) == FirstZone(env.zones)

\* ConvertTemperature: celsius, and the value in the unit asked for when
\* that is fahrenheit (celsius * 9 / 5 + 32) or kelvin (celsius + 273.15).
ConvertTemperature(celsius, unit) ==
    LET lowered == ToLower(unit)
    IN  (IF lowered = UnitFahrenheit
         THEN ("fahrenheit" :> IF celsius.nan THEN NaN
                               ELSE Float((celsius.v * 9) \div 5 + 32 * 5000))
         ELSE IF lowered = UnitKelvin
         THEN ("kelvin" :> IF celsius.nan THEN NaN
                           ELSE Float(celsius.v + 1365750))
         ELSE <<>>)
        @@ ("celsius" :> celsius)

\* The tempUnit local after lines 171-176.
EffectiveTempUnit(c, req) ==
    IF HasText(req, "temp_unit")
    THEN ToLower(req.args.temp_unit.s) ELSE c.TempUnit

\* json.Marshal fails on a float that is not a number.
Marshals(data) ==
    /\ ~data.temperature_celsius.nan
    /\ \A k \in DOMAIN data.temperature_converted :
           ~data.temperature_converted[k].nan

\* HandleGetCPUMetrics; percentages[0] is read whatever the length of the
\* sample list cpu.Percent(0, false) returned.
GetCPUMetrics(c, req, env) ==
    LET tempUnit == EffectiveTempUnit(c, req)
        perCPU == IF env.perCPUErr THEN <<>> ELSE env.perCPU
        cpuInfo == IF env.infoErr THEN <<>> ELSE env.info
        avg == IF env.loadErr THEN [Load1 |-> 0, Load5 |-> 0, Load15 |-> 0]
               ELSE env.load
        temp == GetRaspberryPiTemp(env)
        temps == ConvertTemperature(temp.temp, tempUnit)
        data == (IF Len(cpuInfo) > 0
                 THEN [model |-> cpuInfo[1].ModelName, mhz |-> cpuInfo[1].Mhz]
                 ELSE <<>>)
                @@ [usage_percent |-> env.percent[1],
                    per_cpu_percent |-> perCPU,
                    core_count |-> Len(perCPU),
                    physical_cores |-> env.numCPU,
                    load_average |-> avg,
                    temperature_celsius |-> temp.temp,
                    temperature_converted |-> temps,
                    temperature_unit |-> tempUnit,
                    has_temperature |-> temp.ok]
    IN  IF env.percentErr
        THEN ErrorResult("Failed to get CPU usage")
        ELSE IF Len(env.percent) = 0
        THEN PanicResult
        ELSE IF ~Marshals(data)
        THEN ErrorResult("Failed to marshal result")
        ELSE TextResult(data)

\* The requests the handler is exercised with.
CPURequests ==
    {[isMap |-> FALSE, args |-> [temp_unit |-> Absent]]}
    \cup {[isMap |-> TRUE, args |-> [temp_unit |-> a]] :
            a \in {Absent, Num(2), Str(<<>>), Str(<<"Kelvin">>),
                   Str(<<"FAHRENHEIT">>), Str(<<"rankine">>)}}

Zone(readErr, parseErr, milli) ==
    [readErr |-> readErr, parseErr |-> parseErr, nan |-> FALSE,
     milli |-> milli]

Machine(percentErr, percent, sideErr, zones) ==
    [percentErr |-> percentErr, percent |-> percent,
     perCPUErr |-> sideErr, perCPU |-> <<12, 30>>,
     infoErr |-> sideErr, info |-> <<[ModelName |-> "Cortex-A72", Mhz |-> 1500]>>,
     loadErr |-> sideErr, load |-> [Load1 |-> 1, Load5 |-> 2, Load15 |-> 3],
     numCPU |-> 4, zones |-> zones]

\* What the providers return: cpu.Percent fails, gives no sample or one;
\* the other providers all fail or all succeed; the two thermal zone files
\* are readable or not, hold a number, "NaN" or no number.
Machines ==
    LET zoneFiles ==
            {<<Zone(FALSE, FALSE, 45277), Zone(TRUE, FALSE, 0)>>,
             <<Zone(TRUE, FALSE, 0), Zone(FALSE, TRUE, 0)>>,
             <<Zone(FALSE, TRUE, 0), Zone(FALSE, FALSE, 0 - 1000)>>,
             <<[Zone(FALSE, FALSE, 0) EXCEPT !.nan = TRUE],
               Zone(FALSE, FALSE, 45277)>>}
    IN  {Machine(TRUE, <<>>, FALSE, z) : z \in zoneFiles}
        \cup {Machine(FALSE, p, e, z) :
                p \in {<<>>, <<21>>}, e \in BOOLEAN, z \in zoneFiles}

HandleGetCPUMetrics ==
    /\ served = NoCall
    /\ \E req \in CPURequests, env \in Machines :
         served' = [tool |-> "get_cpu_metrics", req |-> req, env |-> env,
                    result |-> GetCPUMetrics(cfg, req, env)]
    /\ UNCHANGED <<cfg, validated>>
    /\ UNCHANGED <<healthVars, permVars>>

\* ----------------------------------------------------------- get_disk_metrics
\* The mountPoints local after lines 277-287.
RequestedMountPoints(c, req) ==
    IF HasText(req, "mount_points")
    THEN SplitAndTrim(req.args.mount_points.s) ELSE c.MountPoints

\* The humanReadable local after lines 278-287.
HumanReadable(req) ==
    IF req.isMap /\ req.args.human_readable.t = "bool"
    THEN req.args.human_readable.b ELSE TRUE

\* Variant: squashfs partitions are not skipped.
SpecialFs_NoSquash(fstype) == fstype = "tmpfs" \/ fstype = "devtmpfs"

\* The filesystems the loop over the partitions skips.
SpecialFs(fstype) ==
    fstype = "tmpfs" \/ fstype = "devtmpfs" \/ fstype = "squashfs"

\* append(mountPoints, p.Mountpoint) for the partitions that are not
\* skipped, in the order disk.Partitions(false) listed them.
AppendPartitions(mountPoints, partitions) ==
    LET Keep(p) == ~SpecialFs(p.Fstype)
        kept == SelectSeq(partitions, Keep)
    IN  mountPoints \o [k \in 1..Len(kept) |-> kept[k].Mountpoint]

\* disk.Usage(mp): env.usage holds the mounted paths; any other path fails.
Usage(env, mp) ==
    IF mp \in DOMAIN env.usage THEN env.usage[mp]
    ELSE [err |-> TRUE, Total |-> 0, Used |-> 0, Free |-> 0,
          UsedPercent |-> 0, Fstype |-> ""]

DiskInfo(mp, usage, humanReadable) ==
    (IF humanReadable
     THEN [total_human |-> BytesToHuman(usage.Total),
           used_human |-> BytesToHuman(usage.Used),
           free_human |-> BytesToHuman(usage.Free)]
     ELSE <<>>)
    @@ [mount_point |-> mp, total_bytes |-> usage.Total,
        used_bytes |-> usage.Used, free_bytes |-> usage.Free,
        usage_percent |-> usage.UsedPercent, fstype |-> usage.Fstype]

\* Variant: the list the handler built is stored in the configuration.
ConfigAfter_Stored(c, mountPoints) == [c EXCEPT !.MountPoints = mountPoints]

\* h.cfg after the call: mountPoints is a local copy of the slice header
\* h.cfg.MountPoints, and append is reached only when its length is 0, so
\* the elements appended are outside the length the configuration holds.
ConfigAfter(c, mountPoints) == c

\* HandleGetDiskMetrics: the result, the final mountPoints local and the
\* configuration the call leaves.
GetDiskMetrics(c, req, env) ==
    LET requested == RequestedMountPoints(c, req)
        mountPoints == IF Len(requested) = 0
                       THEN AppendPartitions(requested, env.partitions)
                       ELSE requested
        Found(mp) == ~Usage(env, mp).err
        found == SelectSeq(mountPoints, Found)
        diskData == [k \in 1..Len(found) |->
                        DiskInfo(found[k], Usage(env, found[k]),
                                 HumanReadable(req))]
    IN  IF Len(requested) = 0 /\ env.partitionsErr
        THEN [result |-> ErrorResult("Failed to get disk partitions"),
              mountPoints |-> requested, cfg |-> ConfigAfter(c, requested)]
        ELSE [result |-> TextResult([disks |-> diskData]),
              mountPoints |-> mountPoints,
              cfg |-> ConfigAfter(c, mountPoints)]

\* The requests the handler is exercised with.
DiskRequests ==
    {[isMap |-> FALSE,
      args |-> [mount_points |-> Absent, human_readable |-> Absent]]}
    \cup {[isMap |-> TRUE,
           args |-> [mount_points |-> m, human_readable |-> h]] :
            m \in {Absent, Num(2)}
                  \cup {Str(s) : s \in {<<>>, <<",", " ">>, <<"/">>,
                                        <<"/boot", ",", " ", "/gone", ",", "/">>,
                                        <<"/data", ",", "/data">>}},
            h \in {Absent, Bool(TRUE), Bool(FALSE), Str(<<"no">>)}}

Partition(mountpoint, fstype) == [Mountpoint |-> mountpoint, Fstype |-> fstype]

\* What disk.Partitions and disk.Usage return: the partition listing fails,
\* is empty, or lists ordinary and special filesystems; /data is listed but
\* its usage cannot be read; /boot is mounted twice.
DiskEnvs ==
    LET stat(total, used, fstype) ==
            [err |-> FALSE, Total |-> total, Used |-> used,
             Free |-> total - used, UsedPercent |-> (100 * used) \div total,
             Fstype |-> fstype]
        usage == (<<"/">> :> stat(32000, 1280, "ext4"))
                 @@ (<<"/boot">> :> stat(512, 51, "vfat"))
                 @@ (<<"/run">> :> stat(800, 8, "tmpfs"))
                 @@ (<<"/snap/core">> :> stat(100, 100, "squashfs"))
        listed == <<Partition(<<"/dev">>, "devtmpfs"),
                    Partition(<<"/boot">>, "vfat"),
                    Partition(<<"/run">>, "tmpfs"),
                    Partition(<<"/">>, "ext4"),
                    Partition(<<"/snap/core">>, "squashfs"),
                    Partition(<<"/data">>, "ext4"),
                    Partition(<<"/boot">>, "vfat")>>
    IN  {[partitionsErr |-> TRUE, partitions |-> <<>>, usage |-> usage],
         [partitionsErr |-> FALSE, partitions |-> <<>>, usage |-> usage],
         [partitionsErr |-> FALSE, partitions |-> listed, usage |-> usage],
         [partitionsErr |-> FALSE, partitions |-> SubSeq(listed, 1, 3),
          usage |-> <<>>]}

HandleGetDiskMetrics ==
    /\ served = NoCall
    /\ \E req \in DiskRequests, env \in DiskEnvs :
         LET out == GetDiskMetrics(cfg, req, env)
         IN  /\ served' = [tool |-> "get_disk_metrics", req |-> req,
                           env |-> env, result |-> out.result,
                           mountPoints |-> out.mountPoints]
             /\ cfg' = out.cfg
    /\ UNCHANGED validated
    /\ UNCHANGED <<healthVars, permVars>>

\* ------------------------------------------- the tools of a running server
\* A server whose flags passed Validate.
InitTools ==
    /\ HealthInit
    /\ PermIdle
    /\ cfg \in {Validate(
                    [ZeroConfig EXCEPT !.TempUnit = <<"Celsius">>,
                                       !.MaxProcesses = f[1],
                                       !.InterfacesStr = f[2],
                                       !.MountPointsStr = f[3],
                                       !.EnableGPU = (f[1] = 3)]).cfg :
                  f \in {<<0, <<>>, <<>>>>,
                         <<3, <<"eth0">>, <<"/", ",", " ", "/data">>>>,
                         <<MaxProcessesCap + 50,
                           <<"lo", ",", " ", "eth0">>, <<>>>>}}
    /\ validated = "ok"
    /\ served = NoCall

\* The caller has taken the result; the server waits for the next call.
Reply ==
    /\ served # NoCall
    /\ served' = NoCall
    /\ UNCHANGED <<cfg, validated>>
    /\ UNCHANGED <<healthVars, permVars>>

NextTools ==
    \/ HandleGetProcessList
    \/ HandleGetNetworkMetrics
    \/ HandleGetServiceStatus
    \/ HandleGetDockerMetrics
    \/ HandleGetDiskIOMetrics
    \/ HandleGetNetworkConnections
    \/ HandleGetCPUMetrics
    \/ HandleGetDiskMetrics
    \/ Reply

SpecTools == InitTools /\ [][NextTools]_vars

\* ------------------------------------------------------------ the verdicts
\* Invocation i has returned a health response.
Answered(i) == pc[i] = "done" /\ result[i].kind = "text"

\* The sample the response reports, and the thresholds it exceeds.
CpuOf(i) == result[i].cpu.usage_percent
MemOf(i) == result[i].memory.usage_percent
DiskOf(i) == result[i].disk.usage_percent

AnyCritical(c, m, d) == c > 95 \/ m > 95 \/ d > 95
AnyWarning(c, m, d) == c > 80 \/ m > 85 \/ d > 85

\* C1: whenever at least one of cpu, memory, disk exceeds 95 the status of
\* the response is "critical", whatever the other two metrics are.
C1_CriticalWins ==
    \A i \in Invocations :
        Answered(i) /\ AnyCritical(CpuOf(i), MemOf(i), DiskOf(i))
            => result[i].status = "critical"

\* A critical CPU followed by metrics in the warning band and below it.
C1_Witness ==
    \E i \in Invocations :
        /\ Answered(i)
        /\ CpuOf(i) = 96 /\ MemOf(i) = 86 /\ DiskOf(i) = 30
        /\ result[i].status = "critical"

\* C2: when no metric exceeds 95 but at least one exceeds its warning
\* threshold (cpu > 80, memory > 85, disk > 85) the status is "warning".
C2_WarningBand ==
    \A i \in Invocations :
        /\ Answered(i)
        /\ ~AnyCritical(CpuOf(i), MemOf(i), DiskOf(i))
        /\ AnyWarning(CpuOf(i), MemOf(i), DiskOf(i))
        => result[i].status = "warning"

\* Only the disk is in its warning band.
C2_Witness ==
    \E i \in Invocations :
        /\ Answered(i)
        /\ CpuOf(i) = 80 /\ MemOf(i) = 85 /\ DiskOf(i) = 86
        /\ result[i].status = "warning"

\* C3: when cpu <= 80, memory <= 85 and disk <= 85 the status is "healthy"
\* and the warnings list is empty.
C3_Healthy ==
    \A i \in Invocations :
        Answered(i) /\ CpuOf(i) <= 80 /\ MemOf(i) <= 85 /\ DiskOf(i) <= 85
            => /\ result[i].status = "healthy"
               /\ Len(result[i].warnings.items) = 0

\* Every metric sits exactly on its warning threshold.
C3_Witness ==
    \E i \in Invocations :
        /\ Answered(i)
        /\ CpuOf(i) = 80 /\ MemOf(i) = 85 /\ DiskOf(i) = 85
        /\ result[i].status = "healthy"
        /\ result[i].warnings.items = <<>>

\* The warnings of a response, and whether a message is among them.
WarningsOf(i) == result[i].warnings.items
Warns(i, msg) == \E k \in 1..Len(WarningsOf(i)) : WarningsOf(i)[k] = msg

\* What strict comparison means for one metric of a response: on its warning
\* threshold it contributes no message; on 95 it contributes its "high"
\* message and not its "critical" one.
StrictAt(i, v, warn, high, crit) ==
    /\ v = warn => ~Warns(i, high) /\ ~Warns(i, crit)
    /\ v = 95 => Warns(i, high) /\ ~Warns(i, crit)

StrictEverywhere(i) ==
    /\ StrictAt(i, CpuOf(i), 80, "CPU usage is high (>80%)",
                "CPU usage is critical (>95%)")
    /\ StrictAt(i, MemOf(i), 85, "Memory usage is high (>85%)",
                "Memory usage is critical (>95%)")
    /\ StrictAt(i, DiskOf(i), 85, "Disk usage is high (>85%)",
                "Disk usage is critical (>95%)")
    /\ (CpuOf(i) = 80 /\ MemOf(i) = 85 /\ DiskOf(i) = 85
            => result[i].status = "healthy")
    /\ (CpuOf(i) <= 95 /\ MemOf(i) <= 95 /\ DiskOf(i) <= 95
            => result[i].status # "critical")

Scenario5(i) == CpuOf(i) = 95 /\ MemOf(i) = 85 /\ DiskOf(i) = 95

\* C4 as stated: the comparisons are strict at every threshold, and the
\* sample {cpu: 95, memory: 85, disk: 95} is healthy with no warnings.
C4_AsStated ==
    \A i \in Invocations :
        Answered(i) =>
            /\ StrictEverywhere(i)
            /\ Scenario5(i) => /\ result[i].status = "healthy"
                               /\ WarningsOf(i) = <<>>

\* C4 (amended): the comparisons are strict at every threshold: a metric on
\* its warning threshold adds no warning and does not raise the status, a
\* metric on 95 is in the warning band and not critical; so the sample
\* {cpu: 95, memory: 85, disk: 95} has status warning with the CPU and the
\* disk "high" warnings and no memory warning.
C4_StrictThresholds ==
    \A i \in Invocations :
        Answered(i) =>
            /\ StrictEverywhere(i)
            /\ Scenario5(i) =>
                   /\ result[i].status = "warning"
                   /\ WarningsOf(i) = <<"CPU usage is high (>80%)",
                                        "Disk usage is high (>85%)">>

C4_Witness ==
    \E i \in Invocations :
        Answered(i) /\ Scenario5(i) /\ result[i].status = "warning"

\* Severity order of the status values: healthy < warning < critical.
Severity(s) ==
    CASE s = "healthy" -> 0
      [] s = "warning" -> 1
      [] s = "critical" -> 2
      [] OTHER -> 0 - 1

MetricSeverity(v, warn) == IF v > 95 THEN 2 ELSE IF v > warn THEN 1 ELSE 0

Max2(a, b) == IF a >= b THEN a ELSE b

SampleSeverity(c, m, d) ==
    Max2(MetricSeverity(c, 80),
         Max2(MetricSeverity(m, 85), MetricSeverity(d, 85)))

Checking(i) == pc[i] \in {"checkCPU", "checkMemory", "checkDisk"}

\* C5: during one evaluation (CPU check, memory check, disk check) no step
\* lowers the severity of the status, and after the disk check the status
\* is the maximum severity implied by any single metric.
C5_NeverDowngraded ==
    [][\A i \in Invocations :
          Checking(i) =>
              /\ Severity(status'[i]) >= Severity(status[i])
              /\ pc'[i] = "respond" =>
                     Severity(status'[i]) =
                         SampleSeverity(cpuUsage[i], memInfo[i].UsedPercent,
                                        rootDisk[i].UsedPercent)]_vars

\* Critical was reached at the CPU check and two warning-band checks followed.
C5_Witness ==
    \E i \in Invocations :
        /\ pc[i] = "respond"
        /\ cpuUsage[i] = 96
        /\ memInfo[i].UsedPercent = 86
        /\ rootDisk[i].UsedPercent = 86
        /\ status[i] = "critical"

Range(f) == {f[k] : k \in DOMAIN f}

\* C6: whatever the order in which the three checks are applied to a
\* sample, the final status is the one of the order CPU, memory, disk, and
\* the warnings are the same messages (same set, same number).
C6_OrderIndependent ==
    permPos = 3 =>
        /\ permVerdict.status = Classify(permSample).status
        /\ Range(permVerdict.warnings) = Range(Classify(permSample).warnings)
        /\ Len(permVerdict.warnings) = Len(Classify(permSample).warnings)

\* Disk first (critical), then memory and CPU in their warning bands.
C6_Witness ==
    /\ permPos = 3
    /\ permOrder = <<"disk", "memory", "cpu">>
    /\ permSample = <<81, 86, 96>>
    /\ permVerdict.status = "critical"
    /\ permVerdict.warnings = <<"Disk usage is critical (>95%)",
                                "Memory usage is high (>85%)",
                                "CPU usage is high (>80%)">>

\* The message a metric contributes: none up to its warning threshold, its
\* "high" text up to 95, its "critical" text above.
MessageFor(v, warn, high, crit) ==
    IF v > 95 THEN <<crit>> ELSE IF v > warn THEN <<high>> ELSE <<>>

ExpectedWarnings(c, m, d) ==
    MessageFor(c, 80, "CPU usage is high (>80%)",
               "CPU usage is critical (>95%)")
    \o MessageFor(m, 85, "Memory usage is high (>85%)",
                  "Memory usage is critical (>95%)")
    \o MessageFor(d, 85, "Disk usage is high (>85%)",
                  "Disk usage is critical (>95%)")

\* C7: the warnings of a response are, in the order CPU, memory, disk, one
\* message for each metric above its warning threshold: the "critical
\* (>95%)" text above 95 and the "high" text otherwise.
C7_WarningsList ==
    \A i \in Invocations :
        Answered(i) =>
            WarningsOf(i) = ExpectedWarnings(CpuOf(i), MemOf(i), DiskOf(i))

\* The sample {cpu: 85, memory: 96, disk: 30}.
C7_Witness ==
    \E i \in Invocations :
        /\ Answered(i)
        /\ CpuOf(i) = 85 /\ MemOf(i) = 96 /\ DiskOf(i) = 30
        /\ result[i].status = "critical"
        /\ WarningsOf(i) = <<"CPU usage is high (>80%)",
                             "Memory usage is critical (>95%)">>

SameSample(i, j) ==
    CpuOf(i) = CpuOf(j) /\ MemOf(i) = MemOf(j) /\ DiskOf(i) = DiskOf(j)

\* C8: two invocations that observed the same cpu, memory and root-disk
\* percentages return the same status and the same warnings, whatever load
\* average, byte counts, uptime and hostname each of them observed (the
\* handler reads neither its request nor the configuration).
C8_SameSampleSameVerdict ==
    \A i, j \in Invocations :
        Answered(i) /\ Answered(j) /\ SameSample(i, j)
            => /\ result[i].status = result[j].status
               /\ result[i].warnings = result[j].warnings

\* Same percentages, every other observed value different.
C8_Witness ==
    /\ Answered(1) /\ Answered(2) /\ SameSample(1, 2)
    /\ CpuOf(1) = 90
    /\ result[1].cpu.load_1m # result[2].cpu.load_1m
    /\ result[1].memory.available_bytes # result[2].memory.available_bytes
    /\ result[1].disk.free_bytes # result[2].disk.free_bytes
    /\ result[1].uptime.seconds # result[2].uptime.seconds
    /\ result[1].hostname # result[2].hostname
    /\ result[1].status = result[2].status

\* What belongs to invocation i.
Frame(i) ==
    <<cpuUsage[i], loadAvg[i], memInfo[i], rootDisk[i], info[i], status[i],
      warnings[i], result[i]>>

\* C9: with the steps of the invocations interleaved arbitrarily, a step of
\* one invocation changes nothing that belongs to another, and every
\* response carries the verdict of its own sample classified alone.
C9_Independent ==
    [][\A i \in Invocations :
          /\ pc'[i] = pc[i] => Frame(i)' = Frame(i)
          /\ Answered(i)' =>
                 LET alone == Classify(<<CpuOf(i)', MemOf(i)', DiskOf(i)'>>)
                 IN  /\ result'[i].status = alone.status
                     /\ WarningsOf(i)' = alone.warnings]_vars

\* Two evaluations in progress at once with different verdicts.
C9_Witness ==
    /\ pc[1] = "checkDisk" /\ status[1] = "critical"
    /\ pc[2] = "respond" /\ status[2] = "warning"

\* C10: from the first check on, every invocation ends in a response with
\* a verdict, whatever the percentages (negative or above 100 included):
\* the status is one of healthy, warning, critical and the percentages are
\* reported as read.
C10_Total ==
    [][\A i \in Invocations :
          /\ Checking(i) \/ pc[i] = "respond" =>
                 /\ pc'[i] \in {pc[i], "checkMemory", "checkDisk", "respond",
                                "done"}
                 /\ Severity(status'[i]) >= 0 \/ pc'[i] = "done"
          /\ pc[i] = "respond" /\ pc'[i] = "done" =>
                 /\ Answered(i)'
                 /\ result'[i].status \in {"healthy", "warning", "critical"}
                 /\ CpuOf(i)' = cpuUsage[i]
                 /\ MemOf(i)' = memInfo[i].UsedPercent
                 /\ DiskOf(i)' = rootDisk[i].UsedPercent]_vars

\* A negative CPU percentage and a memory percentage above 100.
C10_Witness ==
    \E i \in Invocations :
        /\ Answered(i)
        /\ CpuOf(i) < 0 /\ MemOf(i) > 100 /\ DiskOf(i) = 30
        /\ result[i].status = "critical"

\* C12: with a valid temperature unit Validate returns nil whatever the
\* process limit is, and leaves MaxProcesses in 1..50: below 1 it becomes
\* 10, above 50 it becomes 50, within 1..50 it is unchanged.
C12_ProcessLimitClamped ==
    [][validated = "no" /\ validated' # "no"
       /\ ToLower(cfg.TempUnit)
              \in {<<"celsius">>, <<"fahrenheit">>, <<"kelvin">>}
       => /\ validated' = "ok"
          /\ cfg'.MaxProcesses \in 1..50
          /\ cfg.MaxProcesses < 1 => cfg'.MaxProcesses = 10
          /\ cfg.MaxProcesses > 50 => cfg'.MaxProcesses = 50
          /\ cfg.MaxProcesses \in 1..50
                 => cfg'.MaxProcesses = cfg.MaxProcesses]_vars

\* A limit of 51 given with the unit "Kelvin" was lowered to 50.
C12_Witness ==
    /\ validated = "ok"
    /\ cfg.MaxProcesses = 50
    /\ cfg.TempUnit = <<"kelvin">>
    /\ cfg.EnableGPU

\* C13: Validate returns an error exactly when the temperature unit in
\* lower case is not celsius, fahrenheit or kelvin; when it returns nil the
\* stored TempUnit is that lower-case form, one of the three.
C13_UnitValidated ==
    [][validated = "no" /\ validated' # "no"
       => /\ validated' = "error"
              <=> ToLower(cfg.TempUnit)
                      \notin {<<"celsius">>, <<"fahrenheit">>, <<"kelvin">>}
          /\ validated' = "ok"
                 => /\ cfg'.TempUnit = ToLower(cfg.TempUnit)
                    /\ cfg'.TempUnit
                           \in {<<"celsius">>, <<"fahrenheit">>,
                                <<"kelvin">>}]_vars

\* Validate accepted a unit; the list flags were parsed.
C13_Witness ==
    /\ validated = "ok"
    /\ cfg.TempUnit = <<"fahrenheit">>
    /\ cfg.MountPoints = <<<<"/">>, <<"/data">>>>

\* A call of the named tool has been answered with a text result.
Listed(tool) == served.tool = tool /\ served.result.kind = "text"

Min2(a, b) == IF a <= b THEN a ELSE b

\* The limit argument is a number greater than 0.
PositiveLimit(req) ==
    req.isMap /\ req.args.limit.t = "number" /\ req.args.limit.halves > 0

\* C14 as stated: with a validated configuration the effective limit of
\* get_process_list is in 1..50 for every request: a numeric limit above 0
\* replaces the default and is capped at 50, any other limit leaves the
\* configured default, and no response lists more than 50 processes.
C14_LimitInRange ==
    served.tool = "get_process_list" /\ validated = "ok" =>
        /\ served.limit \in 1..50
        /\ ~PositiveLimit(served.req) => served.limit = cfg.MaxProcesses
        /\ PositiveLimit(served.req) /\ served.req.args.limit.halves % 2 = 0
               => served.limit
                      = Min2(served.req.args.limit.halves \div 2, 50)
        /\ served.result.kind = "text"
               => Len(served.result.data.processes) <= 50

\* The key the claim sorts by: the sort_by argument in lower case, "cpu"
\* when it is absent, empty or not a string.
ClaimedKey(req) ==
    IF req.isMap /\ req.args.sort_by.t = "string" /\ req.args.sort_by.s # <<>>
    THEN ToLower(req.args.sort_by.s) ELSE <<"cpu">>

\* a comes strictly before b in the claimed order.
Before(key, a, b) ==
    \/ key = <<"cpu">> /\ a.CPU > b.CPU
    \/ key = <<"memory">> /\ a.Memory > b.Memory
    \/ key = <<"pid">> /\ a.PID < b.PID

\* C15: get_process_list sorts before it truncates: the list is ordered by
\* CPU percent descending (sort_by cpu or absent), memory percent
\* descending (memory) or PID ascending (pid), sort_by compared without
\* case; it holds the first "limit" entries of that order over all
\* processes; shown is its length and is min(total, limit); total is the
\* number of all processes.
C15_SortedThenCut ==
    Listed("get_process_list") =>
        LET data == served.result.data
            list == data.processes
            table == served.env.processes
            key == ClaimedKey(served.req)
            pids == {list[k].PID : k \in 1..Len(list)}
        IN  /\ data.total = Len(table)
            /\ data.shown = Len(list)
            /\ data.shown = Min2(data.total, served.limit)
            /\ \A a, b \in 1..Len(list) :
                   a < b => ~Before(key, list[b], list[a])
            /\ \A a, b \in 1..Len(list) : list[a].PID = list[b].PID => a = b
            /\ \A a \in 1..Len(list) :
                   \E k \in 1..Len(table) : list[a] = ProcInfo(table[k])
            /\ \A k \in 1..Len(table) :
                   table[k].Pid \notin pids =>
                       \A a \in 1..Len(list) :
                           ~Before(key, ProcInfo(table[k]), list[a])

\* 51 processes sorted by "Memory" and cut to the configured 50.
C15_Witness ==
    /\ Listed("get_process_list")
    /\ served.req.args.sort_by = Str(<<"Memory">>)
    /\ served.req.args.limit = Absent
    /\ served.result.data.total = 51
    /\ served.result.data.shown = 50
    /\ served.result.data.processes[1].Memory
           > served.result.data.processes[50].Memory

\* The set of the elements of a list.
Elems(l) == {l[k] : k \in 1..Len(l)}

\* C16: get_network_metrics takes the interfaces argument as the effective
\* list when it is a non-empty string and the configured list otherwise; an
\* interface with counters is in the response exactly when (the list is
\* empty or holds its name) and (it is not "lo" or the list holds "lo").
C16_InterfaceSelection ==
    Listed("get_network_metrics") =>
        LET arg == served.req.args.interfaces
            given == served.req.isMap /\ arg.t = "string" /\ arg.s # <<>>
            names == Elems(IF given THEN SplitAndTrim(arg.s)
                                    ELSE cfg.Interfaces)
            shown == {e.interface : e \in Elems(served.result.data.interfaces)}
        IN  \A io \in Elems(served.env.netIO) :
                io.Name \in shown <=>
                    /\ names = {} \/ io.Name \in names
                    /\ io.Name # <<"lo">> \/ <<"lo">> \in names

\* lo, eth0 and wlan0 have counters, the argument names lo and wlan0 and
\* the configuration names eth0: lo and wlan0 are returned.
C16_Witness ==
    /\ Listed("get_network_metrics")
    /\ served.req.args.interfaces = Str(<<" ", "lo", ",", "wlan0", " ">>)
    /\ cfg.Interfaces = <<<<"eth0">>>>
    /\ Len(served.env.netIO) = 3
    /\ Len(served.result.data.interfaces) = 2
    /\ served.result.data.interfaces[1].interface = <<"lo">>
    /\ served.result.data.interfaces[2].interface = <<"wlan0">>

\* The names of a services argument, as the claim counts them: the pieces
\* between the commas that are not blank, without the blanks around them.
NonBlankNames(req) ==
    IF req.isMap /\ req.args.services.t = "string"
    THEN LET parts == Split(req.args.services.s)
             named == SelectSeq(parts, LAMBDA part : Elems(part) \ {" "} # {})
         IN  [k \in 1..Len(named) |-> TrimSpace(named[k])]
    ELSE <<>>

\* C17: get_service_status returns an error result and queries no service
\* when the services argument is absent, not a string, empty or without a
\* non-blank name; otherwise it returns one entry per non-blank name, in
\* the order given and with duplicates, and total is the number of entries.
C17_ServicesRequired ==
    served.tool = "get_service_status" =>
        LET names == NonBlankNames(served.req)
        IN  IF names = <<>>
            THEN /\ served.result.kind = "error"
                 /\ served.result.isError
                 /\ served.queried = <<>>
            ELSE /\ served.result.kind = "text"
                 /\ Len(served.result.data.services) = Len(names)
                 /\ \A k \in 1..Len(names) :
                        served.result.data.services[k].name = names[k]
                 /\ served.result.data.total = Len(names)
                 /\ Len(served.queried) = Len(names)

\* "ssh, nginx,,ssh ": three entries, ssh twice.
C17_Witness ==
    /\ Listed("get_service_status")
    /\ served.req.args.services
           = Str(<<"ssh", ",", " ", "nginx", ",", ",", "ssh", " ">>)
    /\ served.result.data.total = 3
    /\ served.result.data.services[1].name = <<"ssh">>
    /\ served.result.data.services[2].name = <<"nginx">>
    /\ served.result.data.services[3].name = <<"ssh">>
    /\ served.result.data.services[3].available

\* C18 as stated: when the container listing fails, get_docker_metrics
\* returns a successful result that is not marked as an error, with an
\* empty containers list and total 0.
C18_DockerUnavailable ==
    served.tool = "get_docker_metrics" /\ served.env.err =>
        /\ served.result.kind = "text"
        /\ ~served.result.isError
        /\ served.result.data.containers = <<>>
        /\ served.result.data.total = 0

\* The device names a devices argument gives: the non-blank pieces between
\* its commas.
NamedDevices(req) ==
    IF req.isMap /\ req.args.devices.t = "string"
    THEN {TrimSpace(part) : part \in Elems(Split(req.args.devices.s))} \ {<<>>}
    ELSE {}

\* C19: when the devices argument of get_disk_io_metrics names a device,
\* the response holds exactly the named devices that have counters; when it
\* names none, every device with counters; total is the number of devices
\* in the response, so naming only unknown devices gives an empty list and
\* total 0, not an error.
C19_DeviceFilter ==
    served.tool = "get_disk_io_metrics" /\ ~served.env.err =>
        /\ served.result.kind = "text"
        /\ LET named == NamedDevices(served.req)
               known == DOMAIN served.env.ioCounters
               list == served.result.data.devices
               shown == {e.device : e \in Elems(list)}
           IN  /\ named # {} => shown = named \cap known
               /\ named = {} => shown = known
               /\ served.result.data.total = Len(list)
               /\ Cardinality(shown) = Len(list)

\* "sdz, mmcblk0" on a machine with sda, sda1 and mmcblk0: mmcblk0 alone.
C19_Witness ==
    /\ Listed("get_disk_io_metrics")
    /\ served.req.args.devices = Str(<<"sdz", ",", " ", "mmcblk0">>)
    /\ Cardinality(DOMAIN served.env.ioCounters) = 3
    /\ served.result.data.total = 1
    /\ served.result.data.devices[1].device = <<"mmcblk0">>

\* A request carries a non-empty string under the key.
Given(req, key) ==
    req.isMap /\ req.args[key].t = "string" /\ req.args[key].s # <<>>

\* C20: the kind get_network_connections reports is tcp, udp or all: the
\* kind argument in lower case when that is tcp or udp, all otherwise; with
\* a non-empty status argument every returned connection has that status
\* in upper case and the response has status_filter; without one the
\* response has no status_filter key; total is the number of connections
\* returned.
C20_FiltersNormalised ==
    Listed("get_network_connections") =>
        LET data == served.result.data
            req == served.req
            wanted == IF Given(req, "kind")
                      THEN ToLower(req.args.kind.s) ELSE <<"all">>
        IN  /\ data.kind \in {<<"tcp">>, <<"udp">>, <<"all">>}
            /\ data.kind = IF wanted \in {<<"tcp">>, <<"udp">>}
                           THEN wanted ELSE <<"all">>
            /\ data.total = Len(data.connections)
            /\ IF Given(req, "status")
               THEN /\ "status_filter" \in DOMAIN data
                    /\ data.status_filter = ToUpper(req.args.status.s)
                    /\ \A c \in Elems(data.connections) :
                           c.status = ToUpper(req.args.status.s)
                    /\ \A c \in Elems(served.env.connections) :
                           c.Status = ToUpper(req.args.status.s)
                               => ConnInfo(c) \in Elems(data.connections)
               ELSE /\ "status_filter" \notin DOMAIN data
                    /\ Len(data.connections) = Len(served.env.connections)

\* kind "TCP" and status "Listen" over five sockets: the one in state
\* LISTEN is returned, not the one in state "listen".
C20_Witness ==
    /\ Listed("get_network_connections")
    /\ served.req.args.kind = Str(<<"TCP">>)
    /\ served.req.args.status = Str(<<"Listen">>)
    /\ Len(served.env.connections) = 5
    /\ served.result.data.kind = <<"tcp">>
    /\ served.result.data.status_filter = <<"LISTEN">>
    /\ served.result.data.total = 1

\* C11 as stated: every tool handler, whatever the request and whatever
\* the providers return (an empty list of samples included), returns a tool
\* result and never panics; a failure it cannot absorb is a result marked
\* IsError with a text message.
C11_NeverPanics ==
    /\ served # NoCall =>
           /\ served.result.kind \in {"text", "error"}
           /\ served.result.kind = "error" => served.result.isError
    /\ \A i \in Invocations : result[i].kind # "panic"

\* C21: get_disk_metrics takes the mount_points argument as the effective
\* list when it is a non-empty string and the configured list otherwise; an
\* empty list becomes the partitions whose filesystem is not tmpfs,
\* devtmpfs or squashfs; the response has one entry, in list order, per
\* mount point whose usage lookup succeeds, and a failing lookup is left
\* out without making the call an error.
C21_MountPointSelection ==
    served.tool = "get_disk_metrics" =>
        LET arg == served.req.args.mount_points
            given == served.req.isMap /\ arg.t = "string" /\ arg.s # <<>>
            list == IF given THEN SplitAndTrim(arg.s) ELSE cfg.MountPoints
            parts == served.env.partitions
            ordinary == SelectSeq(parts, LAMBDA p :
                            p.Fstype \notin {"tmpfs", "devtmpfs", "squashfs"})
            effective == IF list = <<>>
                         THEN [k \in 1..Len(ordinary) |-> ordinary[k].Mountpoint]
                         ELSE list
            readable == SelectSeq(effective, LAMBDA mp :
                            /\ mp \in DOMAIN served.env.usage
                            /\ ~served.env.usage[mp].err)
        IN  ~(list = <<>> /\ served.env.partitionsErr) =>
                /\ served.result.kind = "text"
                /\ ~served.result.isError
                /\ Len(served.result.data.disks) = Len(readable)
                /\ \A k \in 1..Len(readable) :
                       served.result.data.disks[k].mount_point = readable[k]

\* No mount point is asked for or configured; of the seven partitions
\* listed /dev, /run and /snap/core are special and /data cannot be read:
\* the response holds /boot, / and /boot.
C21_Witness ==
    /\ Listed("get_disk_metrics")
    /\ served.req.args.mount_points = Str(<<",", " ">>)
    /\ cfg.MountPoints = <<>>
    /\ Len(served.env.partitions) = 7
    /\ Len(served.result.data.disks) = 3
    /\ served.result.data.disks[1].mount_point = <<"/boot">>
    /\ served.result.data.disks[2].mount_point = <<"/">>
    /\ served.result.data.disks[3].mount_point = <<"/boot">>

\* C24: no handler changes the configuration: over every tool call, with
\* any arguments and also when get_disk_metrics appends the partitions it
\* found to its mount point list, TempUnit, MaxProcesses, MountPoints,
\* Interfaces and EnableGPU keep the values Validate left.
C24_ConfigNeverModified ==
    [][validated = "ok" =>
           /\ validated' = "ok"
           /\ cfg'.TempUnit = cfg.TempUnit
           /\ cfg'.MaxProcesses = cfg.MaxProcesses
           /\ cfg'.MountPoints = cfg.MountPoints
           /\ cfg'.Interfaces = cfg.Interfaces
           /\ cfg'.EnableGPU = cfg.EnableGPU]_vars

\* get_disk_metrics has built a list of four partitions on a server that
\* has no mount point configured.
C24_Witness ==
    /\ Listed("get_disk_metrics")
    /\ validated = "ok"
    /\ served.req.args.mount_points = Absent
    /\ Len(served.mountPoints) = 4
    /\ cfg.MountPoints = <<>>

\* 1 when the condition holds, else 0.
Count(b) == IF b THEN 1 ELSE 0

\* C23: in every health verdict status and warnings agree: status is
\* healthy exactly when warnings is empty; the number of warnings is the
\* number of metrics above their warning threshold, at most 3; status is
\* critical exactly when a warning is a "critical (>95%)" message.
C23_StatusMatchesWarnings ==
    \A i \in Invocations :
        Answered(i) =>
            LET w == WarningsOf(i)
                above == Count(CpuOf(i) > 80) + Count(MemOf(i) > 85)
                         + Count(DiskOf(i) > 85)
                criticalMsgs == {"CPU usage is critical (>95%)",
                                 "Memory usage is critical (>95%)",
                                 "Disk usage is critical (>95%)"}
            IN  /\ result[i].status = "healthy" <=> Len(w) = 0
                /\ Len(w) = above
                /\ Len(w) <= 3
                /\ result[i].status = "critical" <=>
                       \E k \in 1..Len(w) : w[k] \in criticalMsgs

\* CPU 96, memory 86, disk 86: critical with three warnings, one of them a
\* critical message.
C23_Witness ==
    \E i \in Invocations :
        /\ Answered(i)
        /\ CpuOf(i) = 96 /\ MemOf(i) = 86 /\ DiskOf(i) = 86
        /\ result[i].status = "critical"
        /\ Len(WarningsOf(i)) = 3

\* The verdict the thresholds give the three percentages.
StatusFor(c, m, d) ==
    IF AnyCritical(c, m, d) THEN "critical"
    ELSE IF AnyWarning(c, m, d) THEN "warning"
    ELSE "healthy"

Fatal(i) == upstream[i] \cap {"memory", "disk", "host"} # {}

\* C22: upstream failures are handled asymmetrically.  A failed CPU read is
\* replaced by 0 percent and the call still answers with the verdict of the
\* memory and disk percentages; a failed load-average read is replaced by a
\* zero load and the verdict is that of the three percentages alone; a failed
\* memory, root-disk or host-info read gives an error result that carries
\* neither status nor warnings.  No result is both an error and a verdict.
C22_AsymmetricFailures ==
    \A i \in Invocations :
        pc[i] = "done" =>
            /\ "cpu" \in upstream[i] /\ ~Fatal(i)
                   => /\ Answered(i)
                      /\ CpuOf(i) = 0
                      /\ result[i].status = StatusFor(0, MemOf(i), DiskOf(i))
            /\ "load" \in upstream[i] /\ ~Fatal(i)
                   => /\ Answered(i)
                      /\ result[i].cpu.load_1m = 0
                      /\ result[i].status
                             = StatusFor(CpuOf(i), MemOf(i), DiskOf(i))
            /\ Fatal(i)
                   => /\ result[i].kind = "error"
                      /\ result[i].isError
                      /\ DOMAIN result[i] = {"kind", "isError", "text"}
            /\ result[i].kind = "error"
                   => {"status", "warnings"} \cap DOMAIN result[i] = {}
            /\ Answered(i) => ~result[i].isError

\* Both tolerated reads failed and memory alone made the verdict critical.
C22_Witness ==
    \E i \in Invocations :
        /\ Answered(i)
        /\ upstream[i] = {"cpu", "load"}
        /\ CpuOf(i) = 0 /\ result[i].cpu.load_1m = 0
        /\ MemOf(i) = 96 /\ DiskOf(i) = 30
        /\ result[i].status = "critical"

====
